---- MODULE Spec2Model ----
(***************************************************************************)
(* A model of the command-script parser of                                 *)
(* src/public/scripts/slash-commands/SlashCommandParser.js.                 *)
(*                                                                         *)
(* The parser object is the record held in the variable `parser`; every    *)
(* method of the class is an operator that takes the parser record and     *)
(* returns the record after the call, with the method's return value in    *)
(* the field `ret` and a thrown exception in the field `err` (once `err`   *)
(* is set every caller returns at once, as a JavaScript throw does).       *)
(* Text is a sequence of one-character strings; offsets are 0-based as in  *)
(* the source, so the character at offset i is text[i + 1].                *)
(*                                                                         *)
(* After the parser come the event streams of                              *)
(* src/public/scripts/sse-stream.js (variable `stream`) and the scope      *)
(* pairing of src/public/scripts/macros/engine/MacroCstWalker.js           *)
(* (variable `walker`), each with a specification of its own.              *)
(***************************************************************************)
EXTENDS Integers, Sequences, FiniteSets, TLC

VARIABLES
    parser,     \* the SlashCommandParser instance (its fields)
    call,       \* the arguments of the parse() call: text, verify, flags, debug
    phase,      \* "ready": constructed, parse() not yet called; "done": returned or thrown;
                \* "reused", "repeated": a second parse() has returned or thrown
    previous,   \* <<>>, or the one record of the call before this one and the
                \* parser as that call left it
    stream,     \* the event stream of sse-stream.js (its fields), where one is used
    walker      \* the macro document handed to MacroCstWalker and what it answered

vars == <<parser, call, phase, previous, stream, walker>>

\* The parser is used without a stream and without a walker.
NoStream == <<>>
NoWalker == <<>>

\* The parser's methods call one another through Do, defined after the last of them.
RECURSIVE Do(_, _)

----------------------------------------------------------------------------
(* Characters and strings                                                  *)

BS == "\\"
QUOTE == "\""
WhiteSpace == {" ", "\n", "\t"}
WordChars ==
    {"a", "b", "c", "d", "e", "f", "g", "h", "i", "j", "k", "l", "m", "n", "o",
     "p", "q", "r", "s", "t", "u", "v", "w", "x", "y", "z",
     "A", "B", "C", "D", "E", "F", "G", "H", "I", "J", "K", "L", "M", "N", "O",
     "P", "Q", "R", "S", "T", "U", "V", "W", "X", "Y", "Z",
     "0", "1", "2", "3", "4", "5", "6", "7", "8", "9", "_"}

\* What JavaScript appends to a string for `s += undefined`.
UndefinedText == <<"u", "n", "d", "e", "f", "i", "n", "e", "d">>
\* The value of this.char past the end of the text.
Undefined == "undefined"

IsSpace(c) == c \in WhiteSpace
IsWord(c) == c \in WordChars \/ c = Undefined

Max(a, b) == IF a > b THEN a ELSE b
Min(a, b) == IF a < b THEN a ELSE b

\* String.prototype.slice's treatment of a start offset: negative counts from the end.
SliceStart(t, k) == IF k < 0 THEN Max(Len(t) + k, 0) ELSE Min(k, Len(t))

\* t.slice(a, b) for 0-based a, b
Slice(t, a, b) ==
    LET s == SliceStart(t, a)
        e == SliceStart(t, b)
    IN  IF s >= e THEN <<>> ELSE SubSeq(t, s + 1, e)

\* t.slice(k).startsWith(s)
StartsWithAt(t, k, s) ==
    LET at == SliceStart(t, k)
    IN  /\ at + Len(s) <= Len(t)
        /\ \A i \in 1..Len(s) : t[at + i] = s[i]

\* the number of leading backslashes of t.slice(k)
RECURSIVE CountBackslashes(_, _)
CountBackslashes(t, at) ==
    IF at < Len(t) /\ t[at + 1] = BS THEN 1 + CountBackslashes(t, at + 1) ELSE 0

\* the offset of the first non-whitespace character at or after `at` (Len(t) if none)
RECURSIVE SkipSpaces(_, _)
SkipSpaces(t, at) ==
    IF at < Len(t) /\ IsSpace(t[at + 1]) THEN SkipSpaces(t, at + 1) ELSE at

RECURSIVE TrimStart(_)
TrimStart(s) == IF s # <<>> /\ IsSpace(Head(s)) THEN TrimStart(Tail(s)) ELSE s

RECURSIVE TrimEnd(_)
TrimEnd(s) ==
    IF s # <<>> /\ IsSpace(s[Len(s)]) THEN TrimEnd(SubSeq(s, 1, Len(s) - 1)) ELSE s

Trim(s) == TrimEnd(TrimStart(s))

----------------------------------------------------------------------------
(* The symbols handed to testSymbol: strings, and the four regular         *)
(* expressions of the grammar.                                             *)

Str(s) == [kind |-> "str", s |-> s]
Re(id) == [kind |-> "re", id |-> id]

SYM_CLOSURE == Str(<<"{", ":">>)
SYM_CLOSURE_END == Str(<<":", "}">>)
SYM_PIPE == Str(<<"|">>)
SYM_CALL == Str(<<"(", ")">>)
SYM_BLOCK_COMMENT == Str(<<"/", "*">>)
SYM_BLOCK_COMMENT_END == Str(<<"*", "|">>)
SYM_PARSER_FLAG == Str(<<"/", "p", "a", "r", "s", "e", "r", "-", "f", "l", "a", "g", " ">>)
SYM_RUN == Str(<<"/", ":">>)
SYM_COMMAND == Str(<<"/">>)
SYM_QUOTE == Str(<<QUOTE>>)
SYM_LIST == Str(<<"[">>)
SYM_LIST_END == Str(<<"]">>)
RE_SPACE == Re("\\s")
RE_BREAKPOINT == Re("\\/breakpoint\\s*\\|")
RE_BREAK == Re("\\/break(\\s|\\||$)")
RE_COMMENT == Re("\\/[/#]")

BREAKPOINT_TEXT == <<"/", "b", "r", "e", "a", "k", "p", "o", "i", "n", "t">>
BREAK_TEXT == <<"/", "b", "r", "e", "a", "k">>

\* new RegExp(`^${sequence.source}`).test(t.slice(k)) / t.slice(k).startsWith(sequence)
MatchAt(sym, t, k) ==
    LET at == SliceStart(t, k)
    IN  IF sym.kind = "str" THEN StartsWithAt(t, k, sym.s)
        ELSE IF sym = RE_SPACE THEN at < Len(t) /\ IsSpace(t[at + 1])
        ELSE IF sym = RE_COMMENT THEN
            /\ at + 2 <= Len(t)
            /\ t[at + 1] = "/"
            /\ t[at + 2] \in {"/", "#"}
        ELSE IF sym = RE_BREAKPOINT THEN
            /\ StartsWithAt(t, at, BREAKPOINT_TEXT)
            /\ LET after == SkipSpaces(t, at + Len(BREAKPOINT_TEXT))
               IN  after < Len(t) /\ t[after + 1] = "|"
        ELSE \* RE_BREAK
            /\ StartsWithAt(t, at, BREAK_TEXT)
            /\ LET after == at + Len(BREAK_TEXT)
               IN  after = Len(t) \/ IsSpace(t[after + 1]) \/ t[after + 1] = "|"

----------------------------------------------------------------------------
(* The command registry (SlashCommandParser.commands): the commands the    *)
(* constructor registers, and commands standing for those the application  *)
(* registers: `e` takes one unnamed argument, `s` splits its unnamed       *)
(* arguments without a cap, `c` and `d` split with a cap of 1 and of 2.    *)
(* count = 0 stands for splitUnnamedArgumentCount being unset.             *)

Command(name, nargs, split, count) ==
    [name |-> name, unnamedArgumentList |-> nargs, splitUnnamedArgument |-> split,
     splitUnnamedArgumentCount |-> count, rawQuotes |-> FALSE]

NAME_PARSER_FLAG == <<"p", "a", "r", "s", "e", "r", "-", "f", "l", "a", "g">>
NAME_BREAKPOINT == <<"b", "r", "e", "a", "k", "p", "o", "i", "n", "t">>
NAME_BREAK == <<"b", "r", "e", "a", "k">>
NAME_RUN == <<"r", "u", "n">>
NAME_LET == <<"l", "e", "t">>
NAME_IMPORT == <<"i", "m", "p", "o", "r", "t">>

Commands ==
    { Command(NAME_PARSER_FLAG, 2, TRUE, 0),
      Command(<<"/">>, 1, FALSE, 0),
      Command(<<"#">>, 1, FALSE, 0),
      Command(NAME_BREAKPOINT, 0, FALSE, 0),
      Command(NAME_BREAK, 1, FALSE, 0),
      Command(NAME_RUN, 1, FALSE, 0),
      Command(NAME_LET, 2, TRUE, 1),
      Command(<<"e">>, 1, FALSE, 0),
      Command(<<"s">>, 2, TRUE, 0),
      Command(<<"c">>, 2, TRUE, 1),
      Command(<<"d">>, 3, TRUE, 2) }

CommandNames == { c.name : c \in Commands }

\* this.commands[name]; the name itself when registered, NoCommand (undefined) otherwise
NoCommand == <<>>
LookupCommand(name) == IF name \in CommandNames THEN name ELSE NoCommand
CommandOf(name) == CHOOSE c \in Commands : c.name = name

----------------------------------------------------------------------------
(* The parser object                                                       *)

NoErr == [kind |-> "none", index |-> 0, located |-> FALSE]
\* new SlashCommandParserError(message, this.text, index)
ParserError(kind, index) == [kind |-> kind, index |-> index, located |-> TRUE]
\* new SlashCommandParserError(message): no text, no index
BareParserError(kind) == [kind |-> kind, index |-> 0, located |-> FALSE]

Throw(p, e) == [p EXCEPT !.err = e]
Failed(p) == p.err.kind # "none"
Return(p, v) == [p EXCEPT !.ret = v]

\* An iteration of a loop that leaves the cursor where it found it would be
\* repeated for ever, and the call would never return. The statement loop and
\* the value loop of the model end the call there and record it, so that a
\* call that hangs is a state like any other.
Stalls(before, after) == after.index <= before.index
Stalled(p) == Throw(p, BareParserError("Stalled"))

\* The fields of a newly constructed SlashCommandParser. Two things of the
\* process travel with the record: `uuids`, the number of identifiers uuidv4()
\* has issued so far, and `experimental_macro_engine`, the setting of
\* power_user that replaceGetvar reads. `visibleWhenStored` is a history of
\* the scope index: for each snapshot, the names that were visible through
\* it (its own and its ancestors') at the moment it was stored.
NewParser ==
    [text |-> <<>>, index |-> 0, verifyCommandNames |-> TRUE,
     flags |-> [STRICT_ESCAPING |-> FALSE, REPLACE_GETVAR |-> FALSE],
     jumpedEscapeSequence |-> FALSE, debugController |-> FALSE,
     scope |-> 0, closure |-> 0,
     closureIndex |-> <<>>, macroIndex |-> <<>>, commandIndex |-> <<>>, scopeIndex |-> <<>>,
     scopes |-> <<>>, closures |-> <<>>, executors |-> <<>>,
     visibleWhenStored |-> <<>>,
     parserContext |-> <<>>, uuids |-> 0, experimental_macro_engine |-> FALSE,
     ret |-> FALSE, err |-> NoErr]

\* get char()
Char(p) == IF p.index < Len(p.text) THEN p.text[p.index + 1] ELSE Undefined
\* get ahead(): only its length and its being all whitespace are ever used
AheadLength(p) == Max(Len(p.text) - (p.index + 1), 0)
AheadIsSpaces(p) ==
    /\ AheadLength(p) > 0
    /\ \A i \in (p.index + 2)..Len(p.text) : IsSpace(p.text[i])
\* get endOfText()
EndOfText(p) ==
    \/ p.index >= Len(p.text)
    \/ (IsSpace(Char(p)) /\ AheadIsSpaces(p))

\* take(length): the record after it, ret the last character taken
Take(p, length) ==
    [p EXCEPT !.jumpedEscapeSequence = FALSE,
              !.index = p.index + length,
              !.ret = IF p.index + length - 1 < Len(p.text)
                      THEN p.text[p.index + length] ELSE Undefined]

\* s += this.take(): the text the taken character adds to a string
Taken(p) == IF p.ret = Undefined THEN UndefinedText ELSE <<p.ret>>

\* discardWhitespace()
DiscardWhitespace(p) ==
    IF IsSpace(Char(p))
    THEN [p EXCEPT !.index = SkipSpaces(p.text, p.index), !.jumpedEscapeSequence = FALSE]
    ELSE p

\* The common end with the skip made whenever an escaped symbol is met, the
\* flag not consulted.
TestSymbolSkipsAgain(p, sequence, offset, escapeOffset, escapes) ==
    IF MatchAt(sequence, p.text, p.index + offset + escapeOffset + escapes)
    THEN IF escapes = 0 THEN Return(p, TRUE)
         ELSE IF offset = 0
              THEN [p EXCEPT !.index = p.index + 1, !.jumpedEscapeSequence = TRUE,
                             !.ret = FALSE]
              ELSE Return(p, FALSE)
    ELSE Return(p, FALSE)

\* The common end of testSymbol and testSymbolLooseyGoosey, `escapes` being
\* the number of escaping backslashes each of them counted.
TestSymbolWith(p, sequence, offset, escapeOffset, escapes) ==
    IF MatchAt(sequence, p.text, p.index + offset + escapeOffset + escapes)
    THEN IF escapes = 0 THEN Return(p, TRUE)
         ELSE IF ~p.jumpedEscapeSequence /\ offset = 0
              THEN [p EXCEPT !.index = p.index + 1, !.jumpedEscapeSequence = TRUE,
                             !.ret = FALSE]
              ELSE Return(p, FALSE)
    ELSE Return(p, FALSE)

\* testSymbolLooseyGoosey without the skip: an escaped symbol is no match and
\* the cursor stays on the backslash
testSymbolWithoutSkip(p, sequence, offset) ==
    LET at == p.index + offset
        escapes == IF at >= 0 /\ at < Len(p.text) /\ p.text[at + 1] = BS THEN 1 ELSE 0
    IN  Return(p, escapes = 0 /\ MatchAt(sequence, p.text, at))

testSymbolLooseyGoosey(p, sequence, offset) ==
    LET escapeOffset == IF p.jumpedEscapeSequence THEN 0 - 1 ELSE 0
        at == p.index + offset + escapeOffset
        escapes == IF at >= 0 /\ at < Len(p.text) /\ p.text[at + 1] = BS THEN 1 ELSE 0
    IN  TestSymbolWith(p, sequence, offset, escapeOffset, escapes)

testSymbolStrict(p, sequence, offset) ==
    LET escapeOffset == IF p.jumpedEscapeSequence THEN 0 - 1 ELSE 0
        escapes == CountBackslashes(p.text, SliceStart(p.text, p.index + offset + escapeOffset))
    IN  TestSymbolWith(p, sequence, offset, escapeOffset, escapes)

\* testSymbol without its strict branch: one backslash escapes, whatever precedes it
testSymbolNoParity(p, sequence, offset) == testSymbolLooseyGoosey(p, sequence, offset)

testSymbolAt(p, sequence, offset) ==
    IF ~p.flags.STRICT_ESCAPING
    THEN testSymbolLooseyGoosey(p, sequence, offset)
    ELSE testSymbolStrict(p, sequence, offset)

testSymbol(p, sequence) == Do("testSymbolAt", <<p, sequence, 0>>)

----------------------------------------------------------------------------
(* Scopes, closures and executors live in the parser record's `scopes`,    *)
(* `closures` and `executors`, and are referred to by their position       *)
(* there (0: null).                                                        *)

\* new SlashCommandScope(parent)
NewScope(parent) == [parent |-> parent, variableNames |-> <<>>]
\* new SlashCommandClosure(parentScope), its scope being scopes[scope]
NewClosure(scope) ==
    [scope |-> scope, argumentList |-> <<>>, executorList |-> <<>>,
     rawText |-> <<>>, start |-> 0, executeNow |-> FALSE]
\* new SlashCommandExecutor(start); `type` tells SlashCommandExecutor,
\* SlashCommandBreakPoint and SlashCommandBreak apart
NewExecutor(type, start) ==
    [type |-> type, start |-> start, end |-> 0, ended |-> FALSE,
     name |-> <<>>, command |-> NoCommand,
     namedArgumentList |-> <<>>, unnamedArgumentList |-> <<>>,
     injectPipe |-> TRUE, parserFlags |-> [STRICT_ESCAPING |-> FALSE, REPLACE_GETVAR |-> FALSE]]

\* the three cases of an argument's value
StringValue(s) == [type |-> "string", text |-> s, closure |-> 0]
ClosureValue(c) == [type |-> "closure", text |-> <<>>, closure |-> c]
NoValue == [type |-> "undefined", text |-> <<>>, closure |-> 0]
\* value.toString() as used when a value is appended to a string
ValueText(v) ==
    IF v.type = "string" THEN v.text
    ELSE IF v.type = "closure" THEN <<"[", "C", "l", "o", "s", "u", "r", "e", "]">>
    ELSE UndefinedText

\* scope.getCopy(): the names copied, the parent shared
ScopeCopy(p) == p.scopes[p.scope]

\* the names visible from scope s: its own and those of its ancestors
RECURSIVE VisibleNames(_, _)
VisibleNames(p, s) ==
    IF s = 0 THEN {}
    ELSE { p.scopes[s].variableNames[i] : i \in 1..Len(p.scopes[s].variableNames) }
             \cup VisibleNames(p, p.scopes[s].parent)

\* the name pushed to the root scope
DeclareVariableRoot(p, name) ==
    [p EXCEPT !.scopes[1].variableNames = Append(@, name)]
\* this.scope.variableNames.push(name)
DeclareVariable(p, name) ==
    [p EXCEPT !.scopes[p.scope].variableNames = Append(@, name)]

\* this.commandIndex.push(cmd); this.scopeIndex.push(this.scope.getCopy()),
\* for a newly created executor; ret is its position in `executors`
\* the executor indexed without a scope snapshot
IndexExecutorNoScope(p, cmd) ==
    LET id == Len(p.executors) + 1
    IN  [p EXCEPT !.executors = Append(@, cmd),
                  !.commandIndex = Append(@, id),
                  !.ret = id]
IndexExecutor(p, cmd) ==
    LET id == Len(p.executors) + 1
    IN  [p EXCEPT !.executors = Append(@, cmd),
                  !.commandIndex = Append(@, id),
                  !.scopeIndex = Append(@, ScopeCopy(p)),
                  !.visibleWhenStored = Append(@, VisibleNames(p, p.scope)),
                  !.ret = id]

----------------------------------------------------------------------------
(* indexMacros(offset, text)                                               *)

IsMacroOpen(t, i) == t[i + 1] = "{" /\ t[i + 2] = "{"
IsMacroClose(t, i) == t[i + 1] = "}" /\ t[i + 2] = "}"

\* The least offset of S, `otherwise` when S is empty: where a scan that
\* steps over one character at a time (i++) comes to a stop.
First(S, otherwise) ==
    IF S = {} THEN otherwise ELSE CHOOSE i \in S : \A j \in S : i <= j

\* The flag symbols a macro may carry before its identifier
\* (ValidFlagSymbols of macros/engine/MacroFlags.js).
ValidFlagSymbols == { "!", "?", "~", ">", "/", "#" }
AsciiLetters ==
    { "a", "b", "c", "d", "e", "f", "g", "h", "i", "j", "k", "l", "m", "n", "o", "p", "q",
      "r", "s", "t", "u", "v", "w", "x", "y", "z", "A", "B", "C", "D", "E", "F", "G", "H",
      "I", "J", "K", "L", "M", "N", "O", "P", "Q", "R", "S", "T", "U", "V", "W", "X", "Y",
      "Z" }

\* The flags loop of parseMacroContext: the offset after the flags and the
\* whitespace that follows each; `/` before a letter or `/` is a closing tag.
RECURSIVE FlagsEnd(_, _)
FlagsEnd(macroText, i) ==
    IF i >= Len(macroText) THEN i
    ELSE IF /\ macroText[i + 1] = "/" /\ i + 1 < Len(macroText)
            /\ macroText[i + 2] \in AsciiLetters \cup {"/"}
    THEN i
    ELSE IF macroText[i + 1] \in ValidFlagSymbols
    THEN FlagsEnd(macroText, SkipSpaces(macroText, i + 1))
    ELSE i

\* identifierOnly.replace(/:+$/, '')
RECURSIVE StripColons(_)
StripColons(s) ==
    IF s # <<>> /\ s[Len(s)] = ":" THEN StripColons(SubSeq(s, 1, Len(s) - 1)) ELSE s

\* parseMacroContext(macroText, cursorOffset).identifier
parseMacroContext(macroText) ==
    LET i == FlagsEnd(macroText, SkipSpaces(macroText, 0))
        remainingText == Slice(macroText, i, Len(macroText))
        separator == First({ j \in 0..(Len(remainingText) - 2) :
                               remainingText[j + 1] = ":" /\ remainingText[j + 2] = ":" },
                           Len(remainingText))
        trimmedFirstPart == TrimStart(Slice(remainingText, 0, separator))
        firstSpaceInIdentifier ==
            First({ j \in 0..(Len(trimmedFirstPart) - 1) : IsSpace(trimmedFirstPart[j + 1]) }, -1)
        identifierOnly ==
            IF firstSpaceInIdentifier > 0 /\ separator = Len(remainingText)
            THEN Slice(trimmedFirstPart, 0, firstSpaceInIdentifier)
            ELSE TrimEnd(trimmedFirstPart)
    IN  IF remainingText # <<>> /\ remainingText[1] \in {".", "$"} THEN <<>>
        ELSE StripColons(identifierOnly)

\* The inner loop: macroEnd once depth is 0 or the text is exhausted.
RECURSIVE MacroEnd(_, _, _, _)
MacroEnd(t, i, depth, macroEnd) ==
    LET at == First({ k \in i..(Len(t) - 2) : IsMacroOpen(t, k) \/ IsMacroClose(t, k) },
                    Len(t))
    IN  IF at < Len(t) - 1 /\ depth > 0
        THEN IF IsMacroOpen(t, at) THEN MacroEnd(t, at + 2, depth + 1, macroEnd)
             ELSE MacroEnd(t, at + 2, depth - 1, IF depth = 1 THEN at + 2 ELSE macroEnd)
        ELSE macroEnd

\* The scan for a nested macro inside the content of the one just indexed.
NestedMacro(t, i, contentEnd) ==
    First({ k \in i..(contentEnd - 1) : t[k + 1] = "{" /\ k + 1 < Len(t) /\ t[k + 2] = "{" },
          Max(i, contentEnd))

RECURSIVE MacroSpans(_, _, _)
MacroSpans(t, offset, i) ==
    LET macroStart == First({ k \in i..(Len(t) - 2) : IsMacroOpen(t, k) }, Len(t))
    IN  IF macroStart < Len(t) - 1
        THEN LET macroEnd == MacroEnd(t, macroStart + 2, 1, Len(t))
                 contentEnd == IF macroEnd = Len(t) THEN macroEnd ELSE macroEnd - 2
                 nested == NestedMacro(t, macroStart + 2, contentEnd)
                 next == IF nested >= contentEnd THEN macroEnd ELSE nested
                 macroContent == Slice(t, macroStart + 2, contentEnd)
             IN  <<[start |-> offset + macroStart, end |-> offset + macroEnd,
                    name |-> parseMacroContext(macroContent)]>>
                 \o MacroSpans(t, offset, next)
        ELSE <<>>

indexMacros(p, offset, t) == [p EXCEPT !.macroIndex = @ \o MacroSpans(t, offset, 0)]

----------------------------------------------------------------------------
(* replaceGetvar(value): the legacy rewrite of {{getvar::name}} and        *)
(* {{getglobalvar::name}}                                                  *)

UpperLetters ==
    <<"A", "B", "C", "D", "E", "F", "G", "H", "I", "J", "K", "L", "M", "N", "O",
      "P", "Q", "R", "S", "T", "U", "V", "W", "X", "Y", "Z">>
LowerLetters ==
    <<"a", "b", "c", "d", "e", "f", "g", "h", "i", "j", "k", "l", "m", "n", "o",
      "p", "q", "r", "s", "t", "u", "v", "w", "x", "y", "z">>
\* cmd.toLowerCase(), and the `i` flag of the regular expression
LowerCase(t) ==
    [i \in 1..Len(t) |->
        IF \E k \in 1..26 : UpperLetters[k] = t[i]
        THEN LowerLetters[CHOOSE k \in 1..26 : UpperLetters[k] = t[i]]
        ELSE t[i]]

Digits == <<"0", "1", "2", "3", "4", "5", "6", "7", "8", "9">>
\* The n-th identifier uuidv4() issues: 36 characters, no two alike.
Uuid(n) ==
    <<"0", "0", "0", "0", "0", "0", "0", "0", "-", "0", "0", "0", "0", "-",
      "4", "0", "0", "0", "-", "8", "0", "0", "0", "-",
      "0", "0", "0", "0", "0", "0", "0", "0", "0", "0">>
        \o <<Digits[((n \div 10) % 10) + 1], Digits[(n % 10) + 1]>>
\* uuidv4(): ret is the identifier
uuidv4(p) == [p EXCEPT !.uuids = @ + 1, !.ret = Uuid(p.uuids + 1)]

GETVAR == <<"g", "e", "t", "v", "a", "r">>
GETGLOBALVAR == <<"g", "e", "t", "g", "l", "o", "b", "a", "l", "v", "a", "r">>
NAME_RETURN == <<"r", "e", "t", "u", "r", "n">>
PIPE_MACRO == <<"{", "{", "p", "i", "p", "e", "}", "}">>
PARSER_PIPE == <<"_", "P", "A", "R", "S", "E", "R", "_", "P", "I", "P", "E", "_">>
PARSER_VAR == <<"_", "P", "A", "R", "S", "E", "R", "_", "V", "A", "R", "_">>
VarMacro(name) == <<"{", "{", "v", "a", "r", ":", ":">> \o name \o <<"}", "}">>

\* the end of the run of characters other than `}` that starts at offset i
RECURSIVE NameEnd(_, _)
NameEnd(t, i) == IF i < Len(t) /\ t[i + 1] # "}" THEN NameEnd(t, i + 1) ELSE i

\* /{{(get(?:global)?var)::([^}]+)}}/i tried at offset idx of value
GetvarMatch(value, idx) ==
    LET Cmd(c) == StartsWithAt(LowerCase(value), idx + 2, c \o <<":", ":">>)
        cmd == IF Cmd(GETGLOBALVAR) THEN GETGLOBALVAR ELSE GETVAR
        nameStart == idx + 2 + Len(cmd) + 2
        nameEnd == NameEnd(value, nameStart)
    IN  [found |-> /\ StartsWithAt(value, idx, <<"{", "{">>)
                   /\ (Cmd(GETGLOBALVAR) \/ Cmd(GETVAR))
                   /\ nameEnd > nameStart
                   /\ StartsWithAt(value, nameEnd, <<"}", "}">>),
         cmd |-> cmd, name |-> Slice(value, nameStart, nameEnd),
         length |-> nameEnd + 2 - idx]

\* this.closure.executorList.push(executor) for an executor made by the
\* rewrite: it enters no index
PushSynthetic(p, start, end, name, arguments) ==
    LET executor == [NewExecutor("SlashCommandExecutor", start) EXCEPT
                        !.end = end, !.ended = TRUE, !.name = name,
                        !.command = LookupCommand(name),
                        !.unnamedArgumentList = arguments]
    IN  [p EXCEPT !.executors = Append(@, executor),
                  !.closures[p.closure].executorList = Append(@, Len(p.executors) + 1)]

\* The replacer callback naming its variables by the last character of the
\* identifier only.
RewriteGetvarShortIds(p, value, idx, match) ==
    LET startIdx == p.index - Len(value) + idx
        endIdx == startIdx + match.length
        pipeId == uuidv4(p)
        pipeName == PARSER_PIPE \o Slice(pipeId.ret, -1, Len(pipeId.ret))
        storePipe == PushSynthetic(pipeId, startIdx, endIdx, NAME_LET,
                                   <<StringValue(pipeName), StringValue(PIPE_MACRO)>>)
        getvar == PushSynthetic(storePipe, startIdx, endIdx, LowerCase(match.cmd),
                                <<StringValue(Trim(match.name))>>)
        varId == uuidv4(getvar)
        varName == PARSER_VAR \o Slice(varId.ret, -1, Len(varId.ret))
        setvar == PushSynthetic(varId, startIdx, endIdx, NAME_LET,
                                <<StringValue(varName), StringValue(PIPE_MACRO)>>)
        returnPipe == PushSynthetic(setvar, startIdx, endIdx, NAME_RETURN,
                                    <<StringValue(VarMacro(pipeName))>>)
    IN  Return(returnPipe, VarMacro(varName))

\* The replacer callback for the match at offset idx: ret is the replacement.
RewriteGetvar(p, value, idx, match) ==
    LET startIdx == p.index - Len(value) + idx
        endIdx == startIdx + match.length
        pipeId == uuidv4(p)
        pipeName == PARSER_PIPE \o pipeId.ret
        storePipe == PushSynthetic(pipeId, startIdx, endIdx, NAME_LET,
                                   <<StringValue(pipeName), StringValue(PIPE_MACRO)>>)
        getvar == PushSynthetic(storePipe, startIdx, endIdx, LowerCase(match.cmd),
                                <<StringValue(Trim(match.name))>>)
        varId == uuidv4(getvar)
        varName == PARSER_VAR \o varId.ret
        setvar == PushSynthetic(varId, startIdx, endIdx, NAME_LET,
                                <<StringValue(varName), StringValue(PIPE_MACRO)>>)
        returnPipe == PushSynthetic(setvar, startIdx, endIdx, NAME_RETURN,
                                    <<StringValue(VarMacro(pipeName))>>)
    IN  Return(returnPipe, VarMacro(varName))

\* value.replace(regex, replacer) from offset `from` on; `out` is the text so far
RECURSIVE ReplaceFrom(_, _, _, _)
ReplaceFrom(p, value, from, out) ==
    LET idx == First({ k \in from..(Len(value) - 1) : GetvarMatch(value, k).found },
                     Len(value))
        match == GetvarMatch(value, idx)
        r == RewriteGetvar(p, value, idx, match)
    IN  IF idx >= Len(value) THEN Return(p, out \o Slice(value, from, Len(value)))
        ELSE ReplaceFrom(r, value, idx + match.length,
                         out \o Slice(value, from, idx) \o r.ret)

replaceGetvar(p, value) ==
    IF p.experimental_macro_engine THEN Return(p, value)
    ELSE ReplaceFrom(p, value, 0, <<>>)

----------------------------------------------------------------------------
(* Closure and command ends                                                *)

\* testClosureEnd taking every parse for a verified one
testClosureEndVerified(p) ==
    IF p.scopes[p.scope].parent = 0
    THEN Return(p, p.index >= Len(p.text))
    ELSE IF AheadLength(p) < 1
         THEN Throw(p, ParserError("UnclosedClosure", p.index))
    ELSE testSymbol(p, SYM_CLOSURE_END)

testClosureEnd(p) ==
    IF p.scopes[p.scope].parent = 0
    THEN Return(p, p.index >= Len(p.text))
    ELSE IF ~p.verifyCommandNames /\ p.index >= Len(p.text) THEN Return(p, TRUE)
    ELSE IF p.verifyCommandNames /\ AheadLength(p) < 1
         THEN Throw(p, ParserError("UnclosedClosure", p.index))
    ELSE testSymbol(p, SYM_CLOSURE_END)

testCommandEnd(p) ==
    LET c == Do("testClosureEnd", <<p>>)
    IN  IF Failed(c) \/ c.ret THEN c ELSE testSymbol(c, SYM_PIPE)

testClosure(p) == testSymbol(p, SYM_CLOSURE)
testQuotedValue(p) == testSymbol(p, SYM_QUOTE)
testListValue(p) == testSymbol(p, SYM_LIST)
testValue(p) == LET t == testSymbol(p, RE_SPACE) IN Return(t, ~t.ret)

\* !a for a test that may throw
Not(t) == IF Failed(t) THEN t ELSE Return(t, ~t.ret)

----------------------------------------------------------------------------
(* Value parsers. A loop `while (!test()) value += this.take()` is the      *)
(* recursive operator that returns the record after the loop with the      *)
(* collected value in ret.                                                 *)

testQuotedValueEnd(p) ==
    IF EndOfText(p)
    THEN IF p.verifyCommandNames
         THEN Throw(p, ParserError("UnterminatedQuote", p.index))
         ELSE Return(p, TRUE)
    ELSE LET a == IF ~p.verifyCommandNames THEN Do("testClosureEnd", <<p>>) ELSE Return(p, FALSE)
         IN  IF Failed(a) \/ a.ret THEN a
             ELSE LET b == IF p.verifyCommandNames /\ ~p.flags.STRICT_ESCAPING
                           THEN Do("testCommandEnd", <<a>>) ELSE Return(a, FALSE)
                  IN  IF Failed(b) THEN b
                      ELSE IF b.ret THEN Throw(b, ParserError("UnterminatedQuote", b.index))
                      ELSE LET c == testSymbol(b, SYM_QUOTE)
                           IN  IF c.ret \/ p.flags.STRICT_ESCAPING THEN c
                               ELSE Do("testCommandEnd", <<c>>)

QuotedValueLoop(p, value) ==
    LET t == Do("testQuotedValueEnd", <<p>>)
    IN  IF Failed(t) THEN t
        ELSE IF t.ret THEN Return(t, value)
        ELSE LET k == Take(t, 1) IN Do("QuotedValueLoop", <<k, value \o Taken(k)>>)

\* The end of parseQuotedValue, parseListValue and parseValue: the legacy
\* rewrite under its flag, the macro index, and the value returned.
FinishValue(p, value) ==
    LET r == IF p.flags.REPLACE_GETVAR THEN Do("replaceGetvar", <<p, value>>) ELSE Return(p, value)
        v == r.ret
    IN  Return(Do("indexMacros", <<r, r.index - Len(v), v>>), v)

parseQuotedValue(p) ==
    LET body == Do("QuotedValueLoop", <<Take(p, 1), <<>>>>)
    IN  IF Failed(body) THEN body
        ELSE Do("FinishValue", <<Take(body, 1), body.ret>>)

\* testListValueEnd made lenient like testQuotedValueEnd: no throw when unverified
testListValueEndLenient(p) ==
    IF EndOfText(p)
    THEN IF p.verifyCommandNames THEN Throw(p, ParserError("UnterminatedList", p.index))
         ELSE Return(p, TRUE)
    ELSE testSymbol(p, SYM_LIST_END)

testListValueEnd(p) ==
    IF EndOfText(p) THEN Throw(p, ParserError("UnterminatedList", p.index))
    ELSE testSymbol(p, SYM_LIST_END)

ListValueLoop(p, value) ==
    LET t == Do("testListValueEnd", <<p>>)
    IN  IF Failed(t) THEN t
        ELSE IF t.ret THEN Return(t, value)
        ELSE LET k == Take(t, 1) IN Do("ListValueLoop", <<k, value \o Taken(k)>>)

parseListValue(p) ==
    LET open == Take(p, 1)
        body == Do("ListValueLoop", <<open, Taken(open)>>)
    IN  IF Failed(body) THEN body
        ELSE LET close == Take(body, 1)
             IN  Do("FinishValue", <<close, body.ret \o Taken(close)>>)

testValueEnd(p) ==
    LET t == testSymbol(p, RE_SPACE)
    IN  IF t.ret THEN t ELSE Do("testCommandEnd", <<t>>)

ValueLoop(p, value) ==
    LET t == Do("testValueEnd", <<p>>)
    IN  IF Failed(t) THEN t
        ELSE IF t.ret THEN Return(t, value)
        ELSE LET k == Take(t, 1) IN Do("ValueLoop", <<k, value \o Taken(k)>>)

\* `this.jumpedEscapeSequence ? this.take() : ''`: the first, already tested,
\* character when it is an escaped one
TakeEscaped(p) ==
    IF p.jumpedEscapeSequence
    THEN LET k == Take(p, 1) IN Return(k, Taken(k))
    ELSE Return(p, <<>>)

parseValue(p) ==
    LET first == TakeEscaped(p)
        body == Do("ValueLoop", <<first, first.ret>>)
    IN  IF Failed(body) THEN body ELSE Do("FinishValue", <<body, body.ret>>)

testNamedArgument(p) ==
    LET RECURSIVE WordEnd(_)
        WordEnd(i) == IF i < Len(p.text) /\ p.text[i + 1] \in WordChars
                      THEN WordEnd(i + 1) ELSE i
        end == WordEnd(p.index)
    IN  end > p.index /\ end < Len(p.text) /\ p.text[end + 1] = "="

----------------------------------------------------------------------------
(* Arguments                                                               *)


KeyLoop(p, key) ==
    IF IsWord(Char(p)) THEN LET k == Take(p, 1) IN Do("KeyLoop", <<k, key \o Taken(k)>>)
    ELSE Return(p, key)

\* parseNamedArgument(): ret is the assignment
parseNamedArgument(p) ==
    LET start == p.index
        k == Do("KeyLoop", <<p, <<>>>>)
        key == k.ret
        eq == Take(k, 1)
        Assignment(r, value) ==
            Return(r, [name |-> key, value |-> value, start |-> start, end |-> r.index])
        c == testClosure(eq)
        q == testQuotedValue(c)
        l == testListValue(q)
        v == testValue(l)
    IN  IF c.ret
        THEN LET r == Do("parseClosure", <<c, FALSE>>)
             IN  IF Failed(r) THEN r ELSE Assignment(r, ClosureValue(r.ret))
        ELSE IF q.ret
        THEN LET r == Do("parseQuotedValue", <<q>>)
             IN  IF Failed(r) THEN r ELSE Assignment(r, StringValue(r.ret))
        ELSE IF l.ret
        THEN LET r == Do("parseListValue", <<l>>)
             IN  IF Failed(r) THEN r ELSE Assignment(r, StringValue(r.ret))
        ELSE IF v.ret
        THEN LET r == Do("parseValue", <<v>>)
             IN  IF Failed(r) THEN r ELSE Assignment(r, StringValue(r.ret))
        ELSE Assignment(v, NoValue)

\* The local variables of parseUnnamedArgument.
UnnamedLocals(split, value) ==
    [split |-> split, value |-> value, isList |-> split,
     listValues |-> <<>>, listQuoted |-> <<>>]

\* listValues.push(assignment); listQuoted.push(quoted)
Push(l, value, quoted) ==
    [l EXCEPT !.listValues = Append(@, value), !.listQuoted = Append(@, quoted)]
\* listValues.push(assignment) for a closure: listQuoted is left alone
PushClosure(l, c) == [l EXCEPT !.listValues = Append(@, ClosureValue(c))]

\* Lines 1825-1837: the split count has just been reached.
SplitCountReached(p, l, splitCount) ==
    IF l.split /\ splitCount # 0 /\ Len(l.listValues) >= splitCount
    THEN LET q == testQuotedValue(p)
             stop == [l EXCEPT !.split = FALSE]
         IN  IF q.ret
             THEN LET r == Do("parseQuotedValue", <<q>>)
                  IN  IF Failed(r) THEN r
                      ELSE Return(r, Push(stop, StringValue(r.ret), TRUE))
             ELSE Return(q, stop)
    ELSE Return(p, l)

\* Lines 1838-1865: an embedded closure.
ClosureElement(p, l0) ==
    LET l1 == [l0 EXCEPT !.isList = TRUE]
        before ==
            IF Len(l1.value) > 0
            THEN LET m == Do("indexMacros", <<p, p.index - Len(l1.value), l1.value>>)
                     l2 == Push(l1, StringValue(l1.value), FALSE)
                     q == IF ~l2.split THEN testQuotedValue(m) ELSE Return(m, FALSE)
                 IN  IF q.ret
                     THEN LET r == Do("parseQuotedValue", <<q>>)
                          IN  IF Failed(r) THEN r
                              ELSE Return(r, Push(l2, StringValue(r.ret), TRUE))
                     ELSE Return(q, [l2 EXCEPT !.value = <<>>])
            ELSE Return(p, l1)
    IN  IF Failed(before) THEN before
        ELSE LET r == Do("parseClosure", <<before, FALSE>>)
                 l3 == PushClosure(before.ret, r.ret)
             IN  IF Failed(r) THEN r
                 ELSE Return(IF l3.split THEN DiscardWhitespace(r) ELSE r, l3)

\* Lines 1866-1891: one element of a split argument.
SplitElement(p, l) ==
    LET q == testQuotedValue(p)
        t == testListValue(q)
        v == testValue(t)
        Element(r, quoted) ==
            IF Failed(r) THEN r
            ELSE Return(DiscardWhitespace(r), Push(l, StringValue(r.ret), quoted))
    IN  IF q.ret THEN Element(Do("parseQuotedValue", <<q>>), TRUE)
        ELSE IF t.ret THEN Element(Do("parseListValue", <<t>>), FALSE)
        ELSE IF v.ret THEN Element(Do("parseValue", <<v>>), FALSE)
        ELSE Throw(v, BareParserError("UnexpectedArgumentEnd"))

UnnamedArgumentLoop(p, l, splitCount) ==
    LET end == Do("testCommandEnd", <<p>>)
    IN  IF Failed(end) THEN end
        ELSE IF end.ret THEN Return(end, l)
        ELSE LET cap == Do("SplitCountReached", <<end, l, splitCount>>)
             IN  IF Failed(cap) THEN cap
                 ELSE LET c == testClosure(cap)
                          next ==
                              IF c.ret THEN Do("ClosureElement", <<c, cap.ret>>)
                              ELSE IF cap.ret.split THEN Do("SplitElement", <<c, cap.ret>>)
                              ELSE LET k == Take(c, 1)
                                   IN  Return(k, [cap.ret EXCEPT !.value = @ \o Taken(k)])
                      IN  IF Failed(next) THEN next
                          ELSE IF Stalls(p, next) THEN Stalled(next)
                          ELSE Do("UnnamedArgumentLoop", <<next, next.ret, splitCount>>)

\* listQuoted[i] for a 1-based i; undefined (falsy) outside the list
QuotedAt(listQuoted, i) == i >= 1 /\ i <= Len(listQuoted) /\ listQuoted[i]

Shift(q) == IF q = <<>> THEN q ELSE Tail(q)
Pop(q) == IF q = <<>> THEN q ELSE SubSeq(q, 1, Len(q) - 1)

\* Lines 1903-1913: the first element is left-trimmed unless quoted, and
\* dropped when empty.
TrimFirst(l) ==
    IF l.listValues # <<>> /\ l.listValues[1].type = "string"
    THEN LET text == IF ~QuotedAt(l.listQuoted, 1)
                     THEN TrimStart(l.listValues[1].text) ELSE l.listValues[1].text
         IN  IF Len(text) = 0
             THEN [l EXCEPT !.listValues = Shift(@), !.listQuoted = Shift(@)]
             ELSE [l EXCEPT !.listValues[1] = StringValue(text)]
    ELSE l

\* Lines 1914-1924: the last element is right-trimmed unless quoted, and
\* dropped when empty.
TrimLast(l) ==
    LET n == Len(l.listValues)
    IN  IF n > 0 /\ l.listValues[n].type = "string"
        THEN LET text == IF ~QuotedAt(l.listQuoted, Len(l.listQuoted))
                         THEN TrimEnd(l.listValues[n].text) ELSE l.listValues[n].text
             IN  IF Len(text) = 0
                 THEN [l EXCEPT !.listValues = Pop(@), !.listQuoted = Pop(@)]
                 ELSE [l EXCEPT !.listValues[n] = StringValue(text)]
        ELSE l

\* Lines 1933-1936: the values from position i (1-based) on, joined, quotes restored.
RECURSIVE JoinFrom(_, _)
JoinFrom(l, i) ==
    IF i > Len(l.listValues) THEN <<>>
    ELSE (IF QuotedAt(l.listQuoted, i)
          THEN <<QUOTE>> \o ValueText(l.listValues[i]) \o <<QUOTE>>
          ELSE ValueText(l.listValues[i]))
         \o JoinFrom(l, i + 1)

\* Lines 1925-1941: more values than the split count allows are joined into one.
JoinOverflow(l, wasSplit, splitCount) ==
    IF wasSplit /\ splitCount # 0 /\ splitCount + 1 < Len(l.listValues)
    THEN SubSeq(l.listValues, 1, splitCount) \o <<StringValue(JoinFrom(l, splitCount + 1))>>
    ELSE l.listValues

\* parseUnnamedArgument(split, splitCount, rawQuotes): ret is the list of values
parseUnnamedArgument(p, split, splitCount, rawQuotes) ==
    LET first == TakeEscaped(p)
        l0 == UnnamedLocals(split, first.ret)
        q == IF ~split /\ ~rawQuotes THEN testQuotedValue(first) ELSE Return(first, FALSE)
        quoted ==
            IF q.ret
            THEN LET r == Do("parseQuotedValue", <<q>>)
                 IN  IF Failed(r) THEN r
                     ELSE Return(r, Push([l0 EXCEPT !.isList = TRUE], StringValue(r.ret), TRUE))
            ELSE Return(q, l0)
    IN  IF Failed(quoted) THEN quoted
        ELSE LET loop == Do("UnnamedArgumentLoop", <<quoted, quoted.ret, splitCount>>)
                 l1 == loop.ret
                 l2 == IF l1.isList /\ Len(l1.value) > 0
                       THEN Push(l1, StringValue(l1.value), FALSE) ELSE l1
             IN  IF Failed(loop) THEN loop
                 ELSE IF l2.isList
                 THEN Return(loop, JoinOverflow(TrimLast(TrimFirst(l2)), split, splitCount))
                 ELSE LET m == Do("indexMacros", <<loop, loop.index - Len(l2.value), l2.value>>)
                          r == IF m.flags.REPLACE_GETVAR THEN Do("replaceGetvar", <<m, Trim(l2.value)>>)
                               ELSE Return(m, Trim(l2.value))
                      IN  Return(r, <<StringValue(r.ret)>>)

----------------------------------------------------------------------------
(* Statements                                                              *)

SetExecutor(p, id, field, value) == [p EXCEPT !.executors[id][field] = value]
EndExecutor(p, id, end) == [p EXCEPT !.executors[id].end = end, !.executors[id].ended = TRUE]

testBreakPoint(p) == testSymbol(p, RE_BREAKPOINT)
\* parseBreakPoint(): ret is the executor
parseBreakPoint(p) ==
    LET k == Take(p, Len(BREAKPOINT_TEXT))
        cmd == [NewExecutor("SlashCommandBreakPoint", p.index + 1) EXCEPT
                    !.name = NAME_BREAKPOINT, !.command = LookupCommand(NAME_BREAKPOINT),
                    !.end = k.index, !.ended = TRUE]
    IN  IndexExecutor(k, cmd)

testBreak(p) == testSymbol(p, RE_BREAK)
\* parseBreak(): ret is the executor
parseBreak(p) ==
    LET k == DiscardWhitespace(Take(p, Len(BREAK_TEXT)))
        t == Not(Do("testCommandEnd", <<k>>))
        a == IF t.ret THEN Do("parseUnnamedArgument", <<t, FALSE, 0, FALSE>>) ELSE Return(t, <<>>)
    IN  IF Failed(t) THEN t
        ELSE IF Failed(a) THEN a
        ELSE IndexExecutor(a,
                [NewExecutor("SlashCommandBreak", p.index + 1) EXCEPT
                    !.name = NAME_BREAK, !.command = LookupCommand(NAME_BREAK),
                    !.unnamedArgumentList = a.ret, !.end = a.index, !.ended = TRUE])

testBlockComment(p) == testSymbol(p, SYM_BLOCK_COMMENT)
testBlockCommentEnd(p) ==
    IF ~p.verifyCommandNames /\ p.index >= Len(p.text) THEN Return(p, TRUE)
    ELSE IF p.verifyCommandNames /\ AheadLength(p) < 1
         THEN Throw(p, ParserError("UnclosedBlockComment", p.index))
    ELSE testSymbol(p, SYM_BLOCK_COMMENT_END)

BlockCommentLoop(p) ==
    LET end == Do("testBlockCommentEnd", <<p>>)
    IN  IF Failed(end) \/ end.ret THEN end
        ELSE LET t == testBlockComment(end)
                 inner == IF t.ret THEN Do("parseBlockComment", <<t>>) ELSE t
             IN  IF Failed(inner) THEN inner ELSE Do("BlockCommentLoop", <<Take(inner, 1)>>)

parseBlockComment(p) ==
    LET i == IndexExecutor(p, [NewExecutor("SlashCommandExecutor", p.index + 1) EXCEPT
                                  !.command = LookupCommand(<<"*">>)])
        id == i.ret
        name == Take(Take(i, 1), 1)
        body == Do("BlockCommentLoop", <<SetExecutor(name, id, "name", Taken(name))>>)
    IN  IF Failed(body) THEN body
        ELSE LET k == Take(body, 2) IN EndExecutor(k, id, k.index - 1)

testComment(p) == testSymbol(p, RE_COMMENT)
\* testCommentEnd without the check of verified parses: the end of the input
\* ends the comment
testCommentEndUnverified(p) ==
    IF p.index >= Len(p.text) THEN Return(p, TRUE) ELSE testSymbol(p, SYM_PIPE)

testCommentEnd(p) ==
    IF ~p.verifyCommandNames /\ p.index >= Len(p.text) THEN Return(p, TRUE)
    ELSE IF p.verifyCommandNames /\ EndOfText(p)
         THEN Throw(p, ParserError("UnclosedComment", p.index))
    ELSE testSymbol(p, SYM_PIPE)

CommentLoop(p) ==
    LET end == Do("testCommentEnd", <<p>>)
    IN  IF Failed(end) \/ end.ret THEN end ELSE Do("CommentLoop", <<Take(end, 1)>>)

parseComment(p) ==
    LET i == IndexExecutor(p, [NewExecutor("SlashCommandExecutor", p.index + 1) EXCEPT
                                  !.command = LookupCommand(<<"/">>)])
        id == i.ret
        name == Take(Take(i, 1), 1)
        body == Do("CommentLoop", <<SetExecutor(name, id, "name", Taken(name))>>)
    IN  IF Failed(body) THEN body ELSE EndExecutor(body, id, body.index)

\* String.prototype.toLowerCase(), on the letters the flag states are made of
Lower(c) ==
    CASE c = "O" -> "o" [] c = "N" -> "n" [] c = "F" -> "f" [] c = "T" -> "t"
      [] c = "R" -> "r" [] c = "U" -> "u" [] c = "E" -> "e" [] OTHER -> c
ToLowerCase(t) == [i \in 1..Len(t) |-> Lower(t[i])]
\* isTrueBoolean(arg) of utils.js
isTrueBoolean(t) ==
    ToLowerCase(Trim(t)) \in { <<"o", "n">>, <<"t", "r", "u", "e">>, <<"1">> }

FLAG_STRICT_ESCAPING == <<"S", "T", "R", "I", "C", "T", "_", "E", "S", "C", "A", "P", "I", "N", "G">>
FLAG_REPLACE_GETVAR == <<"R", "E", "P", "L", "A", "C", "E", "_", "G", "E", "T", "V", "A", "R">>

testParserFlag(p) == testSymbol(p, SYM_PARSER_FLAG)
parseParserFlag(p) ==
    LET i == IndexExecutor(p, [NewExecutor("SlashCommandExecutor", p.index + 1) EXCEPT
                                  !.name = NAME_PARSER_FLAG,
                                  !.command = LookupCommand(NAME_PARSER_FLAG)])
        id == i.ret
        a == Do("parseUnnamedArgument", <<Take(i, Len(SYM_PARSER_FLAG.s)), TRUE, 0, FALSE>>)
    IN  IF Failed(a) THEN a
        ELSE LET list == a.ret
                 r == SetExecutor(a, id, "unnamedArgumentList", list)
                 flag == ValueText(list[1])
                 state == IF Len(list) >= 2 THEN isTrueBoolean(ValueText(list[2])) ELSE TRUE
             IN  IF list = <<>> THEN Throw(r, BareParserError("TypeError"))
                 ELSE EndExecutor(
                        IF flag = FLAG_STRICT_ESCAPING
                        THEN [r EXCEPT !.flags.STRICT_ESCAPING = state]
                        ELSE IF flag = FLAG_REPLACE_GETVAR
                        THEN [r EXCEPT !.flags.REPLACE_GETVAR = state]
                        ELSE r,
                        id, r.index)

\* while (this.testNamedArgument()) { push(this.parseNamedArgument()); this.discardWhitespace(); }
\* ret is the list of the arguments parsed
NamedArgumentLoop(p, list) ==
    IF ~testNamedArgument(p) THEN Return(p, list)
    ELSE LET a == Do("parseNamedArgument", <<p>>)
         IN  IF Failed(a) THEN a
             ELSE Do("NamedArgumentLoop", <<DiscardWhitespace(a), Append(list, a.ret)>>)

testRunShorthand(p) ==
    LET a == testSymbol(p, SYM_RUN)
        b == Do("testSymbolAt", <<a, SYM_CLOSURE_END, 1>>)
    IN  IF a.ret THEN Return(b, ~b.ret) ELSE a

\* parseRunShorthand() without the test for the end of the statement
parseRunShorthandUnended(p) ==
    LET i == IndexExecutor(p, [NewExecutor("SlashCommandExecutor", p.index + 2) EXCEPT
                                  !.name = <<":">>, !.command = LookupCommand(NAME_RUN)])
        id == i.ret
        q == testQuotedValue(Take(i, 2))
        v == IF q.ret THEN Do("parseQuotedValue", <<q>>) ELSE Do("parseValue", <<q>>)
    IN  IF Failed(v) THEN v
        ELSE LET u == SetExecutor(v, id, "unnamedArgumentList", <<StringValue(v.ret)>>)
                 n == Do("NamedArgumentLoop", <<DiscardWhitespace(u), <<>>>>)
             IN  IF Failed(n) THEN n
                 ELSE LET e == DiscardWhitespace(SetExecutor(n, id, "namedArgumentList", n.ret))
                      IN  Return(EndExecutor(e, id, e.index), id)

\* parseRunShorthand(): ret is the executor
parseRunShorthand(p) ==
    LET i == IndexExecutor(p, [NewExecutor("SlashCommandExecutor", p.index + 2) EXCEPT
                                  !.name = <<":">>, !.command = LookupCommand(NAME_RUN)])
        id == i.ret
        q == testQuotedValue(Take(i, 2))
        v == IF q.ret THEN Do("parseQuotedValue", <<q>>) ELSE Do("parseValue", <<q>>)
    IN  IF Failed(v) THEN v
        ELSE LET u == SetExecutor(v, id, "unnamedArgumentList", <<StringValue(v.ret)>>)
                 n == Do("NamedArgumentLoop", <<DiscardWhitespace(u), <<>>>>)
             IN  IF Failed(n) THEN n
                 ELSE LET e == Do("testCommandEnd", <<
                                  DiscardWhitespace(SetExecutor(n, id, "namedArgumentList", n.ret))>>)
                      IN  IF Failed(e) THEN e
                          ELSE IF e.ret THEN Return(EndExecutor(e, id, e.index), id)
                          ELSE Throw(e, ParserError("UnexpectedEndOfCommand", e.index))

testCommand(p) == testSymbol(p, SYM_COMMAND)

\* while (!/\s/.test(this.char) && !this.testCommandEnd()) cmd.name += this.take()
NameLoop(p, id) ==
    IF IsSpace(Char(p)) THEN p
    ELSE LET e == Do("testCommandEnd", <<p>>)
         IN  IF Failed(e) \/ e.ret THEN e
             ELSE LET k == Take(e, 1)
                  IN  Do("NameLoop", <<SetExecutor(k, id, "name", k.executors[id].name \o Taken(k)), id>>)

\* the names `/import a as b c` brings into scope
RECURSIVE ImportedNames(_, _)
ImportedNames(value, i) ==
    IF i > Len(value) THEN <<>>
    ELSE IF i + 2 <= Len(value) /\ value[i + 1] = StringValue(<<"a", "s">>)
    THEN <<value[i + 2]>> \o ImportedNames(value, i + 3)
    ELSE <<value[i]>> \o ImportedNames(value, i + 1)

RECURSIVE DeclareVariables(_, _)
DeclareVariables(p, names) ==
    IF names = <<>> THEN p
    ELSE DeclareVariables(DeclareVariable(p, ValueText(Head(names))), Tail(names))

\* the variable registration of /let and /import at the end of parseCommand
RegisterVariables(p, cmd) ==
    IF cmd.name = NAME_LET
    THEN LET keys == SelectSeq(cmd.namedArgumentList, LAMBDA a : a.name = <<"k", "e", "y">>)
         IN  IF keys # <<>> THEN DeclareVariable(p, ValueText(keys[1].value))
             ELSE IF cmd.unnamedArgumentList # <<>> /\ cmd.unnamedArgumentList[1].type = "string"
             THEN DeclareVariable(p, cmd.unnamedArgumentList[1].text)
             ELSE p
    ELSE IF cmd.name = NAME_IMPORT
    THEN DeclareVariables(p, ImportedNames(cmd.unnamedArgumentList, 1))
    ELSE p

\* the end of parseCommand, from `if (this.testCommandEnd())`
FinishCommand(p, id) ==
    LET e == Do("testCommandEnd", <<p>>)
    IN  IF Failed(e) THEN e
        ELSE IF e.ret THEN Return(EndExecutor(e, id, e.index), id)
        ELSE Throw(e, ParserError("UnexpectedEndOfCommand", e.index))

\* parseCommand(): ret is the executor
parseCommand(p) ==
    LET i == IndexExecutor(p, [NewExecutor("SlashCommandExecutor", p.index + 1) EXCEPT
                                  !.parserFlags = p.flags])
        id == i.ret
        n == Do("NameLoop", <<Take(i, 1), id>>)
        w == DiscardWhitespace(n)
        name == w.executors[id].name
        command == LookupCommand(name)
    IN  IF Failed(n) THEN n
        ELSE IF w.verifyCommandNames /\ command = NoCommand
        THEN Throw(w, ParserError("UnknownCommand", w.index - Len(name)))
        ELSE LET a == Do("NamedArgumentLoop", <<SetExecutor(w, id, "command", command), <<>>>>)
             IN  IF Failed(a) THEN a
                 ELSE LET d == DiscardWhitespace(SetExecutor(a, id, "namedArgumentList", a.ret))
                          t == Not(Do("testCommandEnd", <<d>>))
                      IN  IF Failed(t) THEN t
                          ELSE IF ~t.ret THEN Do("FinishCommand", <<t, id>>)
                          ELSE LET c == IF command = NoCommand THEN Command(name, 0, FALSE, 0)
                                        ELSE CommandOf(command)
                                   u == Do("parseUnnamedArgument", <<t,
                                            c.unnamedArgumentList > 0 /\ c.splitUnnamedArgument,
                                            c.splitUnnamedArgumentCount, c.rawQuotes>>)
                               IN  IF Failed(u) THEN u
                                   ELSE LET r == SetExecutor(u, id, "unnamedArgumentList", u.ret)
                                        IN  Do("FinishCommand", <<RegisterVariables(r, r.executors[id]), id>>)

----------------------------------------------------------------------------
(* parseClosure(isRoot)                                                    *)

\* parseClosure without its executorList.push: the executor is parsed and dropped
PushExecutorNowhere(p, cid, id) == p

\* closure.executorList.push(cmd)
PushExecutor(p, cid, id) == [p EXCEPT !.closures[cid].executorList = Append(@, id)]

\* while (this.testNamedArgument()) of parseClosure: the closure's arguments
ClosureArgumentLoop(p, cid) ==
    IF ~testNamedArgument(p) THEN p
    ELSE LET a == Do("parseNamedArgument", <<p>>)
         IN  IF Failed(a) THEN a
             ELSE Do("ClosureArgumentLoop", <<
                    DiscardWhitespace(DeclareVariable(
                        [a EXCEPT !.closures[cid].argumentList = Append(@, a.ret)],
                        a.ret.name)),
                    cid>>)

DiscardTextUntaken(p) == p

\* while (!this.testCommandEnd()) this.take(): discard plain text
DiscardText(p) ==
    LET e == Do("testCommandEnd", <<p>>)
    IN  IF Failed(e) \/ e.ret THEN e ELSE Do("DiscardText", <<Take(e, 1)>>)

\* One statement of the closure's body; ret is the injectPipe the next
\* statement starts from.
Statement(p, cid, injectPipe) ==
    LET bc == testBlockComment(p)
        co == testComment(bc)
        pf == testParserFlag(co)
        rs == Do("testRunShorthand", <<pf>>)
        bp == testBreakPoint(rs)
        br == testBreak(bp)
        cm == testCommand(br)
    IN  IF bc.ret THEN Return(Do("parseBlockComment", <<bc>>), injectPipe)
        ELSE IF co.ret THEN Return(Do("parseComment", <<co>>), injectPipe)
        ELSE IF pf.ret THEN Return(Do("parseParserFlag", <<pf>>), injectPipe)
        ELSE IF rs.ret
        THEN LET r == Do("parseRunShorthand", <<rs>>)
             IN  IF Failed(r) THEN r ELSE Return(PushExecutor(r, cid, r.ret), TRUE)
        ELSE IF bp.ret
        THEN LET r == Do("parseBreakPoint", <<bp>>)
             IN  Return(IF r.debugController THEN PushExecutor(r, cid, r.ret) ELSE r, injectPipe)
        ELSE IF br.ret
        THEN LET r == Do("parseBreak", <<br>>)
             IN  IF Failed(r) THEN r ELSE Return(PushExecutor(r, cid, r.ret), injectPipe)
        ELSE IF cm.ret
        THEN LET r == Do("parseCommand", <<cm>>)
             IN  IF Failed(r) THEN r
                 ELSE Return(PushExecutor(SetExecutor(r, r.ret, "injectPipe", injectPipe),
                                          cid, r.ret), TRUE)
        ELSE Return(Do("DiscardText", <<cm>>), injectPipe)

\* Pipes without line 1544: the pipes are consumed, the second changes nothing
PipesAlwaysInject(p, injectPipe) ==
    LET first == testSymbol(p, SYM_PIPE)
        second == testSymbol(Take(first, 1), SYM_PIPE)
    IN  IF ~first.ret THEN Return(first, injectPipe)
        ELSE IF ~second.ret THEN Return(second, injectPipe)
        ELSE Return(Take(second, 1), injectPipe)

\* The pipes after a statement; ret is the injectPipe of the next statement.
Pipes(p, injectPipe) ==
    LET first == testSymbol(p, SYM_PIPE)
        second == testSymbol(Take(first, 1), SYM_PIPE)
    IN  IF ~first.ret THEN Return(first, injectPipe)
        ELSE IF ~second.ret THEN Return(second, injectPipe)
        ELSE Return(Take(second, 1), FALSE)

\* while (!this.testClosureEnd()) { ... }
ClosureLoop(p, cid, injectPipe) ==
    LET e == Do("testClosureEnd", <<p>>)
    IN  IF Failed(e) \/ e.ret THEN e
        ELSE LET s == Do("Statement", <<e, cid, injectPipe>>)
                 q == Do("Pipes", <<DiscardWhitespace(s), s.ret>>)
             IN  IF Failed(s) THEN s
                 ELSE IF Stalls(p, DiscardWhitespace(q)) THEN Stalled(q)
                 ELSE Do("ClosureLoop", <<DiscardWhitespace(q), cid, q.ret>>)

parseClosureFlagsScoped(p, isRoot) ==
    LET entry == Len(p.closureIndex) + 1
        i == [p EXCEPT !.closureIndex =
                          Append(@, [start |-> p.index + 1, end |-> 0, ended |-> FALSE])]
        o == IF isRoot THEN i ELSE Take(i, 2)
        textStart == o.index
        sid == Len(o.scopes) + 1
        cid == Len(o.closures) + 1
        c == [o EXCEPT !.scopes = Append(@, NewScope(o.scope)),
                       !.closures = Append(@, NewClosure(sid)),
                       !.scope = sid, !.closure = cid]
        a == Do("ClosureArgumentLoop", <<DiscardWhitespace(c), cid>>)
        b == IF Failed(a) THEN a ELSE Do("ClosureLoop", <<a, cid, TRUE>>)
    IN  IF Failed(b) THEN b
        ELSE LET raw == [b EXCEPT !.closures[cid].rawText = Slice(b.text, textStart, b.index)]
                 t == testSymbol(IF isRoot THEN raw ELSE Take(raw, 2), Str(<<"(", ")">>))
                 x == IF t.ret THEN [Take(t, 2) EXCEPT !.closures[cid].executeNow = TRUE] ELSE t
             IN  [x EXCEPT !.closureIndex[entry].end = x.index - 1,
                           !.closureIndex[entry].ended = TRUE,
                           !.scope = x.scopes[sid].parent,
                           !.closure = IF p.closure # 0 THEN p.closure ELSE cid,
                           !.ret = cid,
                           !.flags = p.flags]

\* parseClosure(isRoot): ret is the closure
parseClosure(p, isRoot) ==
    LET entry == Len(p.closureIndex) + 1
        i == [p EXCEPT !.closureIndex =
                          Append(@, [start |-> p.index + 1, end |-> 0, ended |-> FALSE])]
        o == IF isRoot THEN i ELSE Take(i, 2)
        textStart == o.index
        sid == Len(o.scopes) + 1
        cid == Len(o.closures) + 1
        c == [o EXCEPT !.scopes = Append(@, NewScope(o.scope)),
                       !.closures = Append(@, NewClosure(sid)),
                       !.scope = sid, !.closure = cid]
        a == Do("ClosureArgumentLoop", <<DiscardWhitespace(c), cid>>)
        b == IF Failed(a) THEN a ELSE Do("ClosureLoop", <<a, cid, TRUE>>)
    IN  IF Failed(b) THEN b
        ELSE LET raw == [b EXCEPT !.closures[cid].rawText = Slice(b.text, textStart, b.index)]
                 t == testSymbol(IF isRoot THEN raw ELSE Take(raw, 2), Str(<<"(", ")">>))
                 x == IF t.ret THEN [Take(t, 2) EXCEPT !.closures[cid].executeNow = TRUE] ELSE t
             IN  [x EXCEPT !.closureIndex[entry].end = x.index - 1,
                           !.closureIndex[entry].ended = TRUE,
                           !.scope = x.scopes[sid].parent,
                           !.closure = IF p.closure # 0 THEN p.closure ELSE cid,
                           !.ret = cid]

\* parse(text, verifyCommandNames, flags, abortController, debugController)
parse(p, text, verifyCommandNames, flags, debugController) ==
    LET r == Do("parseClosure", <<
                [p EXCEPT !.verifyCommandNames = verifyCommandNames, !.flags = flags,
                          !.uuids = @ + 1, !.parserContext = Uuid(p.uuids + 1),
                          !.debugController = debugController, !.text = text, !.index = 0,
                          !.scope = 0, !.closureIndex = <<>>, !.commandIndex = <<>>,
                          !.scopeIndex = <<>>, !.macroIndex = <<>>,
                          !.scopes = <<>>, !.closures = <<>>, !.executors = <<>>,
                          !.visibleWhenStored = <<>>, !.err = NoErr],
                TRUE>>)
    IN  r


\* the flags of a call with the legacy rewrite off
Flags(strict) == [STRICT_ESCAPING |-> strict, REPLACE_GETVAR |-> FALSE]

\* parser.parse(c.text, c.verifyCommandNames, flags) under the settings of c
ParseCall(p, c) ==
    parse([p EXCEPT !.experimental_macro_engine = c.experimental_macro_engine],
          c.text, c.verifyCommandNames,
          [Flags(c.STRICT_ESCAPING) EXCEPT !.REPLACE_GETVAR = c.REPLACE_GETVAR],
          c.debugController)

\* A call of one method by another: Do("parseValue", <<p>>) is parseValue(p).
Do(h, a) ==
    CASE h = "ParseCall" -> ParseCall(a[1], a[2])
      [] h = "testSymbolAt" -> testSymbolAt(a[1], a[2], a[3])
      [] h = "indexMacros" -> indexMacros(a[1], a[2], a[3])
      [] h = "replaceGetvar" -> replaceGetvar(a[1], a[2])
      [] h = "testClosureEnd" -> testClosureEnd(a[1])
      [] h = "testCommandEnd" -> testCommandEnd(a[1])
      [] h = "testQuotedValueEnd" -> testQuotedValueEnd(a[1])
      [] h = "QuotedValueLoop" -> QuotedValueLoop(a[1], a[2])
      [] h = "FinishValue" -> FinishValue(a[1], a[2])
      [] h = "parseQuotedValue" -> parseQuotedValue(a[1])
      [] h = "testListValueEnd" -> testListValueEnd(a[1])
      [] h = "ListValueLoop" -> ListValueLoop(a[1], a[2])
      [] h = "parseListValue" -> parseListValue(a[1])
      [] h = "testValueEnd" -> testValueEnd(a[1])
      [] h = "ValueLoop" -> ValueLoop(a[1], a[2])
      [] h = "parseValue" -> parseValue(a[1])
      [] h = "KeyLoop" -> KeyLoop(a[1], a[2])
      [] h = "parseNamedArgument" -> parseNamedArgument(a[1])
      [] h = "SplitCountReached" -> SplitCountReached(a[1], a[2], a[3])
      [] h = "ClosureElement" -> ClosureElement(a[1], a[2])
      [] h = "SplitElement" -> SplitElement(a[1], a[2])
      [] h = "UnnamedArgumentLoop" -> UnnamedArgumentLoop(a[1], a[2], a[3])
      [] h = "parseUnnamedArgument" -> parseUnnamedArgument(a[1], a[2], a[3], a[4])
      [] h = "parseBreakPoint" -> parseBreakPoint(a[1])
      [] h = "parseBreak" -> parseBreak(a[1])
      [] h = "testBlockCommentEnd" -> testBlockCommentEnd(a[1])
      [] h = "BlockCommentLoop" -> BlockCommentLoop(a[1])
      [] h = "parseBlockComment" -> parseBlockComment(a[1])
      [] h = "testCommentEnd" -> testCommentEnd(a[1])
      [] h = "CommentLoop" -> CommentLoop(a[1])
      [] h = "parseComment" -> parseComment(a[1])
      [] h = "parseParserFlag" -> parseParserFlag(a[1])
      [] h = "NamedArgumentLoop" -> NamedArgumentLoop(a[1], a[2])
      [] h = "testRunShorthand" -> testRunShorthand(a[1])
      [] h = "parseRunShorthand" -> parseRunShorthand(a[1])
      [] h = "NameLoop" -> NameLoop(a[1], a[2])
      [] h = "FinishCommand" -> FinishCommand(a[1], a[2])
      [] h = "parseCommand" -> parseCommand(a[1])
      [] h = "ClosureArgumentLoop" -> ClosureArgumentLoop(a[1], a[2])
      [] h = "DiscardText" -> DiscardText(a[1])
      [] h = "Statement" -> Statement(a[1], a[2], a[3])
      [] h = "Pipes" -> Pipes(a[1], a[2])
      [] h = "ClosureLoop" -> ClosureLoop(a[1], a[2], a[3])
      [] h = "parseClosure" -> parseClosure(a[1], a[2])

----------------------------------------------------------------------------
(* The inputs of parse(): families of texts, one per behaviour examined.   *)

MaxEsc == 4
MaxTrail == 3
MaxElements == 3

Backslashes(n) == [i \in 1..n |-> BS]
ECHO == <<"/", "e", " ">>

\* /e <pre> \...\ | <suf>: a pipe after a run of n backslashes
TAIL_TEXT == <<"d", "e", "f">>
C1Prefixes == { <<>>, <<"a", "b", "c", " ">> }
C1Second == <<" ">> \o ECHO \o TAIL_TEXT
C1Suffixes == { <<>>, <<" ">> \o TAIL_TEXT, C1Second }
C1Text(pre, n, suf) == ECHO \o pre \o Backslashes(n) \o <<"|">> \o suf
C1Texts == { C1Text(pre, n, suf) : pre \in C1Prefixes, n \in 0..MaxEsc, suf \in C1Suffixes }

\* <first> <sep> /e b, at root or as the body of a closure argument; the
\* separator is one or two pipes with optional whitespace around them
Spaces(n) == [i \in 1..n |-> " "]
PipeRun(n) == [i \in 1..n |-> "|"]
InClosure(body) == ECHO \o <<"{", ":", " ">> \o body \o <<" ", ":", "}">>
C2Firsts == { <<"/", "e">>, ECHO \o <<"a">>, <<"/", "s", " ", "a", " ", "b">> }
C2Text(first, l, k, r, nested) ==
    LET body == first \o Spaces(l) \o PipeRun(k) \o Spaces(r) \o ECHO \o <<"b">>
    IN  IF nested THEN InClosure(body) ELSE body
C2Texts ==
    { C2Text(first, l, k, r, nested) :
        first \in C2Firsts, l \in 0..1, k \in 1..2, r \in 0..1, nested \in BOOLEAN }

\* <prefix>/<name><rest>, an unregistered name, at root or as the body of a closure argument
BOGUS == <<"b", "o", "g", "u", "s">>
C3Prefixes == { <<>>, ECHO \o <<"a", " ", "|", " ">> }
C3Names == { BOGUS, <<"x">> }
C3Rests == { <<>>, <<" ">>, <<" ", "a">>, <<" ", " ", "k", "=", "1", " ", "b">>, <<"|", "/", "e">> }
C3Body(prefix, name, rest) == prefix \o <<"/">> \o name \o rest
C3Text(prefix, name, rest, nested) ==
    IF nested THEN InClosure(C3Body(prefix, name, rest)) ELSE C3Body(prefix, name, rest)
C3Texts ==
    { C3Text(prefix, name, rest, nested) :
        prefix \in C3Prefixes, name \in C3Names, rest \in C3Rests, nested \in BOOLEAN }
\* the offset in C3Text of the first character of the name
C3NameOffset(prefix, nested) == (IF nested THEN Len(InClosure(<<>>)) - 3 ELSE 0) + Len(prefix) + 1

\* <head>[<content><trail>: a list value left open, then trailing blanks
C5Heads == { ECHO \o <<"x", "=">>, <<"/", "s", " ">>, <<"/", "s", " ", "a", " ">> }
C5Contents == { <<>>, <<"1", ",", "2", ",", "3">>, <<"a", " ", "b">> }
C5Text(head, content, trail) == head \o <<"[">> \o content \o Spaces(trail)
C5Texts ==
    { C5Text(head, content, trail) :
        head \in C5Heads, content \in C5Contents, trail \in 0..MaxTrail }

\* <head>{:<body>: the input ends inside the closure that head's last {: opens
OPEN == <<"{", ":">>
CLOSED == ECHO \o OPEN \o <<" ">> \o ECHO \o <<"b", " ", ":", "}", " ", "|", " ">>
C6Heads == { ECHO, ECHO \o <<"x", "=">>, ECHO \o <<"a", " ">>, CLOSED \o ECHO }
C6Bodies ==
    { <<>>, <<" ">>, <<" ">> \o ECHO \o <<"a">>, <<" ">> \o ECHO \o <<"a", " ">>,
      <<" ">> \o ECHO \o <<"a", " ", "|", " ">> \o ECHO \o <<"b">>,
      <<" ">> \o ECHO \o OPEN \o <<" ">> \o ECHO \o <<"a", " ", ":", "}">>,
      <<" ">> \o ECHO \o OPEN \o <<" ">> \o ECHO \o <<"a">> }
C6Text(head, body) == head \o OPEN \o body
C6Texts == { C6Text(head, body) : head \in C6Heads, body \in C6Bodies }
\* the position in `closures` of the closure left open
C6Closure(head) == IF head = CLOSED \o ECHO THEN 3 ELSE 2

\* inputs with balanced closure markers, the empty and one-character ones among them
CLOSE == <<":", "}">>
C7Texts ==
    { <<>>, <<"a">>, <<"/">>, <<" ">>, <<"/", "e">>, ECHO \o <<"a">>,
      ECHO \o OPEN \o CLOSE,
      ECHO \o OPEN \o <<" ">> \o CLOSE,
      InClosure(ECHO \o <<"a">>),
      InClosure(InClosure(ECHO \o <<"a">>)),
      ECHO \o <<"x", "=">> \o OPEN \o <<" ">> \o ECHO \o <<"a", " ">> \o CLOSE \o <<"(", ")">>,
      InClosure(ECHO \o <<"a">>) \o <<" ", "|", " ">> \o InClosure(ECHO \o <<"b">>) }
\* the number of {: in a text
RECURSIVE Opens(_)
Opens(t) ==
    IF Len(t) < 2 THEN 0
    ELSE (IF SubSeq(t, 1, 2) = OPEN THEN 1 ELSE 0) + Opens(Tail(t))

\* the tokens of an unnamed argument: as written (raw) and as the value they stand for
Bare(t) == [raw |-> t, value |-> t, quoted |-> FALSE]
Quoted(t) == [raw |-> <<QUOTE>> \o t \o <<QUOTE>>, value |-> t, quoted |-> TRUE]
RECURSIVE JoinRaw(_)
JoinRaw(es) ==
    IF es = <<>> THEN <<>>
    ELSE IF Len(es) = 1 THEN es[1].raw
    ELSE es[1].raw \o <<" ">> \o JoinRaw(Tail(es))
Values(es) == [i \in 1..Len(es) |-> es[i].value]

\* /s <element> ... <element>: a split unnamed argument without cap
C8Elements ==
    { Bare(<<"a">>), Quoted(<<"h", " ", "w">>), Quoted(<<>>), Bare(<<"[", "1", " ", "2", "]">>) }
C8Seqs == UNION { [1..n -> C8Elements] : n \in 1..MaxElements }
C8Text(es) == <<"/", "s", " ">> \o JoinRaw(es)
C8Texts == { C8Text(es) : es \in C8Seqs }

\* /c <token> <rest><tail> (cap 1) and /d <token> <token> <rest><tail> (cap 2)
C9Tokens == { Bare(<<"a">>), Quoted(<<"q", " ", "r">>) }
C9Rests ==
    { <<Bare(<<"b">>)>>, <<Bare(<<"b">>), Bare(<<"c">>)>>, <<Quoted(<<"b">>)>>,
      <<Quoted(<<"b">>), Bare(<<"c">>)>>, <<Bare(<<"b">>), Quoted(<<"c", " ", "d">>)>>,
      <<Quoted(<<"b", " ", "c">>)>> }
C9Tails == { <<>>, <<"|", "/", "e">> }
C9Heads(n) == [1..n -> C9Tokens]
C9Text(n, heads, rest, tail) ==
    <<"/", IF n = 1 THEN "c" ELSE "d", " ">> \o JoinRaw(heads \o rest) \o tail
C9Texts ==
    UNION { { C9Text(n, heads, rest, tail) :
                heads \in C9Heads(n), rest \in C9Rests, tail \in C9Tails } : n \in 1..2 }

\* /e <quoted><before>{: :}<after>: an unnamed argument that a closure makes a list
NoQuoted == <<>>
C10Quoted == { NoQuoted, <<Quoted(<<"q">>)>>, <<Quoted(<<" ", "q", " ">>)>>, <<Quoted(<<>>)>> }
C10Befores == { <<>>, <<"a">>, <<"a", " ">>, <<" ", "a">>, <<" ">> }
C10Afters == { <<>>, <<" ">>, <<"b">>, <<" ", "b">>, <<" ", "b", " ">> }
C10Text(q, before, after) == ECHO \o JoinRaw(q) \o before \o OPEN \o <<" ">> \o CLOSE \o after
C10Texts ==
    { C10Text(q, before, after) : q \in C10Quoted, before \in C10Befores, after \in C10Afters }

\* C11, C15: values holding the macros of the legacy rewrite
Macro(cmd, name) == <<"{", "{">> \o cmd \o <<":", ":">> \o name \o <<"}", "}">>
GetvarValues ==
    { Macro(GETVAR, <<"x">>),
      Macro(<<"G", "e", "t", "V", "a", "r">>, <<"x">>),
      Macro(<<"v", "a", "r">>, <<"x">>) }
GetvarLongValues ==
    { Macro(GETGLOBALVAR, <<"y">>),
      Macro(GETVAR, <<"x">>) \o Macro(GETVAR, <<"y">>) }
REPLACE_ON ==
    <<"/", "p", "a", "r", "s", "e", "r", "-", "f", "l", "a", "g", " ">>
        \o <<"R", "E", "P", "L", "A", "C", "E", "_", "G", "E", "T", "V", "A", "R">>
        \o <<" ", "o", "n", "|">>
GetvarFrames(v) ==
    { ECHO \o v,
      ECHO \o <<QUOTE>> \o v \o <<QUOTE>>,
      ECHO \o <<"k", "=">> \o v \o <<" ", "b">>,
      <<"/", "s", " ", "a", " ", "[">> \o v \o <<"]">>,
      InClosure(ECHO \o v),
      REPLACE_ON \o ECHO \o v }
\* C28: the macros of the legacy rewrite as plain-text elements of a list:
\* before a closure, after a closure and after a quoted string
C28_MACRO == Macro(GETVAR, <<"x">>)
C28_CLOSURE == OPEN \o CLOSE
C28ListTexts ==
    { ECHO \o C28_MACRO \o <<" ">> \o C28_CLOSURE,
      ECHO \o C28_CLOSURE \o <<" ">> \o C28_MACRO,
      ECHO \o <<QUOTE, "a", QUOTE, " ">> \o C28_MACRO }
\* a text, the closure its statement stands in and the macros of the
\* rewrite in its values, in order
C28Case(text, closure, macros) == [text |-> text, closure |-> closure, macros |-> macros]
C28Occurrence(cmd, name) == [cmd |-> cmd, name |-> name]
C28_X == C28Occurrence(GETVAR, <<"x">>)
C28_Y == C28Occurrence(GETVAR, <<"y">>)
C28Cases ==
    { C28Case(text, 1, <<C28_X>>) : text \in C28ListTexts }
        \cup { C28Case(ECHO \o C28_MACRO, 1, <<C28_X>>),
               C28Case(ECHO \o <<QUOTE>> \o C28_MACRO \o <<QUOTE>>, 1, <<C28_X>>),
               C28Case(ECHO \o <<"k", "=">> \o C28_MACRO \o <<" ", "b">>, 1, <<C28_X>>),
               C28Case(<<"/", "s", " ", "a", " ", "[">> \o C28_MACRO \o <<"]">>, 1, <<C28_X>>),
               C28Case(InClosure(ECHO \o C28_MACRO), 2, <<C28_X>>),
               C28Case(ECHO \o Macro(<<"G", "e", "t", "V", "a", "r">>, <<"x">>), 1, <<C28_X>>),
               C28Case(ECHO \o Macro(GETGLOBALVAR, <<"y">>), 1,
                       <<C28Occurrence(GETGLOBALVAR, <<"y">>)>>),
               C28Case(ECHO \o C28_MACRO \o Macro(GETVAR, <<"y">>), 1, <<C28_X, C28_Y>>),
               C28Case(ECHO \o <<QUOTE>> \o C28_MACRO \o Macro(GETVAR, <<"y">>) \o <<QUOTE>>, 1,
                       <<C28_X, C28_Y>>) }

GetvarTexts ==
    UNION { GetvarFrames(v) : v \in GetvarValues }
        \cup { ECHO \o v : v \in GetvarLongValues }
        \cup { ECHO \o <<QUOTE>> \o v \o <<QUOTE>> : v \in GetvarLongValues }

\* C12: texts parsed first, and texts parsed next on the same parser
RUN_X == <<"/", ":", "x">>
ESCAPED_PIPE == <<BS, "|">>
C12Earlier ==
    { ECHO \o <<"a">>,
      <<"/">> \o BOGUS,
      RUN_X \o <<" ">> \o ESCAPED_PIPE,
      ECHO \o OPEN \o <<" ">> \o ECHO \o <<QUOTE, "a">> \o ESCAPED_PIPE,
      ECHO \o <<"k", "=", "1", " ">> \o OPEN \o <<" ">> \o ECHO \o <<"b", " ">> \o CLOSE }
C12Later ==
    { ECHO \o <<"a">>,
      ECHO \o <<"a", "|">>,
      <<"e", "/">>,
      <<"/">> \o BOGUS,
      ECHO \o OPEN \o <<" ">> \o ECHO \o <<"b", " ">> \o CLOSE \o <<"|">> }
C12Texts == C12Earlier \cup C12Later

\* /let in a closure argument: a statement before the closure (a command or
\* a /let of y), the declaration of x in one of its three forms, the statements
\* after it in the closure (a command, a closure nested deeper, or both) and
\* a statement after the closure or none
C13Befores == { <<"/", "e", " ", "a", "|">>, <<"/", "l", "e", "t", " ", "y", " ", "2", "|">> }
C13Lets == { <<"/", "l", "e", "t", " ", "x", " ", "1">>, <<"/", "l", "e", "t", " ", "k", "e", "y", "=", "x", " ", "1">>, <<"/", "l", "e", "t", " ", "x">> }
C13Laters == { <<"/", "e", " ", "b">>, <<"/", "e", " ", "{", ":", "/", "e", " ", "c", ":", "}">>, <<"/", "e", " ", "b", "|", "/", "e", " ", "{", ":", "/", "e", " ", "c", ":", "}">> }
C13Afters == { <<>>, <<"|", "/", "e", " ", "d">> }
C13Text(before, let, later, after) ==
    before \o <<"/", "e", " ", "{", ":">> \o let \o <<"|">> \o later \o CLOSE \o after
C13Texts ==
    { C13Text(before, let, later, after) :
        before \in C13Befores, let \in C13Lets, later \in C13Laters, after \in C13Afters }

\* /parser-flag statements between statements of every kind
C14Texts ==
    { <<"/", "e", " ", "a", "|", "/", "p", "a", "r", "s", "e", "r", "-", "f", "l", "a", "g", " ", "S", "T", "R", "I", "C", "T", "_", "E", "S", "C", "A", "P", "I", "N", "G", " ", "o", "n", "|", "/", "e", " ", "b">>,
      <<"/", "p", "a", "r", "s", "e", "r", "-", "f", "l", "a", "g", " ", "S", "T", "R", "I", "C", "T", "_", "E", "S", "C", "A", "P", "I", "N", "G", " ", "o", "f", "f", "|", "/", "e", " ", "b">>,
      <<"/", "p", "a", "r", "s", "e", "r", "-", "f", "l", "a", "g", " ", "S", "T", "R", "I", "C", "T", "_", "E", "S", "C", "A", "P", "I", "N", "G", "|", "/", "e", " ", "b">>,
      <<"/", "p", "a", "r", "s", "e", "r", "-", "f", "l", "a", "g", " ", "B", "O", "G", "U", "S", " ", "o", "n", "|", "/", "e", " ", "b">>,
      <<"/", "e", " ", "{", ":", "/", "p", "a", "r", "s", "e", "r", "-", "f", "l", "a", "g", " ", "S", "T", "R", "I", "C", "T", "_", "E", "S", "C", "A", "P", "I", "N", "G", " ", "o", "n", "|", "/", "e", " ", "b", ":", "}", "|", "/", "e", " ", "c">>,
      <<"/", "e", " ", "k", "=", "{", ":", "/", "p", "a", "r", "s", "e", "r", "-", "f", "l", "a", "g", " ", "S", "T", "R", "I", "C", "T", "_", "E", "S", "C", "A", "P", "I", "N", "G", " ", "o", "f", "f", ":", "}", " ", "{", ":", "/", "e", " ", "b", ":", "}", "|", "/", "e", " ", "c">>,
      <<"/", "p", "a", "r", "s", "e", "r", "-", "f", "l", "a", "g", " ", "R", "E", "P", "L", "A", "C", "E", "_", "G", "E", "T", "V", "A", "R", " ", "o", "n", "|", "/", "e", " ", "b", "|", "/", "p", "a", "r", "s", "e", "r", "-", "f", "l", "a", "g", " ", "R", "E", "P", "L", "A", "C", "E", "_", "G", "E", "T", "V", "A", "R", " ", "o", "f", "f", "|", "/", "e", " ", "c">>,
      <<"/", ":", "x", "|", "/", "e", " ", "a">>,
      <<"/", "e", " ", "a", "|", "/", "b", "r", "e", "a", "k">>,
      <<"/", "b", "r", "e", "a", "k", "p", "o", "i", "n", "t", "|", "/", "e", " ", "a">>,
      <<"/", "p", "a", "r", "s", "e", "r", "-", "f", "l", "a", "g", " ", "S", "T", "R", "I", "C", "T", "_", "E", "S", "C", "A", "P", "I", "N", "G", " ", "o", "n", "|", "/", ":", "x">> }

\* /parser-flag without a flag name, and with a second blank before it
C16Texts ==
    { <<"/", "p", "a", "r", "s", "e", "r", "-", "f", "l", "a", "g", " ">>,
      <<"/", "p", "a", "r", "s", "e", "r", "-", "f", "l", "a", "g", " ", "|", "/", "e", " ", "a">>,
      <<"/", "p", "a", "r", "s", "e", "r", "-", "f", "l", "a", "g", " ", " ">>,
      <<"/", "p", "a", "r", "s", "e", "r", "-", "f", "l", "a", "g", " ", "\"", "\"">>,
      <<"/", "e", " ", "{", ":", "/", "p", "a", "r", "s", "e", "r", "-", "f", "l", "a", "g", " ", ":", "}">>,
      <<"/", "p", "a", "r", "s", "e", "r", "-", "f", "l", "a", "g", " ", " ", "S", "T", "R", "I", "C", "T", "_", "E", "S", "C", "A", "P", "I", "N", "G">> }

\* a quoted value that meets a pipe or a closure end before a closing quote
C17_PIPE_OPEN == <<"/", "e", " ", "\"", "a", "|", "/", "e", " ", "b">>
C17_PIPE_CLOSED == <<"/", "e", " ", "\"", "a", "|", "b", "\"">>
C17_CLOSURE_OPEN == <<"/", "e", " ", "{", ":", "/", "e", " ", "\"", "a", ":", "}", "|", "/", "e", " ", "b">>
C17Texts == { C17_PIPE_OPEN, C17_PIPE_CLOSED, C17_CLOSURE_OPEN }

\* macros in the plain text of an unnamed argument, alone and before and
\* after a quoted part or a closure; no macro is inside quotes or a closure
C18Texts ==
    { <<"/", "e", " ", "{", "{", "a", "}", "}">>,
      <<"/", "e", " ", "x", "{", "{", "a", "}", "}", " ", "y">>,
      <<"/", "e", " ", "{", "{", "a", "}", "}", " ", "{", ":", ":", "}">>,
      <<"/", "e", " ", "{", ":", ":", "}", " ", "{", "{", "a", "}", "}">>,
      <<"/", "e", " ", "\"", "q", "\"", " ", "{", "{", "a", "}", "}">>,
      <<"/", "e", " ", "{", "{", "a", "}", "}", " ", "\"", "q", "\"">>,
      <<"/", "e", " ", "\"", "q", "\"", " ", "{", "{", "a", "}", "}", " ", "{", ":", ":", "}", " ", "{", "{", "b", "}", "}">>,
      <<"/", "e", " ", "{", "{", "a", "}", "}", "{", ":", ":", "}", "{", "{", "b", "}", "}", "{", ":", ":", "}">>,
      <<"/", "s", " ", "{", "{", "a", "}", "}", " ", "{", ":", ":", "}", " ", "{", "{", "b", "}", "}">>,
      <<"/", "s", " ", "\"", "q", "\"", " ", "{", "{", "a", "}", "}">>,
      <<"/", "e", " ", "{", "{", "a", "}", "}", "|", "/", "e", " ", "{", ":", ":", "}", "{", "{", "b", "}", "}">> }

\* macros, nested and unterminated ones among them, in bare, quoted and list
\* values of unnamed and named arguments
C19Bare ==
    { <<"/", "e", " ", "{", "{", "a", "}", "}">>,
      <<"/", "e", " ", "{", "{", "a", "{", "{", "b", "}", "}", "}", "}">>,
      <<"/", "e", " ", "x", " ", "{", "{", "a", "}", "}", " ", "{", "{", "b", "}", "}">>,
      <<"/", "e", " ", "{", "{", "a">>,
      <<"/", "e", " ", "k", "=", "{", "{", "a", "}", "}", " ", "b">>,
      <<"/", "s", " ", "{", "{", "a", "}", "}", " ", "{", "{", "b", "{", "{", "c", "}", "}", "}", "}">> }
C19Quoted ==
    { <<"/", "e", " ", "\"", "{", "{", "a", "}", "}", "\"">>,
      <<"/", "e", " ", "\"", "{", "{", "a", "{", "{", "b", "}", "}", "}", "}", "\"">>,
      <<"/", "e", " ", "k", "=", "\"", "{", "{", "a", "}", "}", "\"", " ", "b">>,
      <<"/", "s", " ", "\"", "{", "{", "a", "}", "}", "\"", " ", "b">> }
C19Lists ==
    { <<"/", "s", " ", "[", "{", "{", "a", "}", "}", "]">>,
      <<"/", "s", " ", "[", "{", "{", "a", "{", "{", "b", "}", "}", "}", "}", "]", " ", "c">>,
      <<"/", "e", " ", "k", "=", "[", "{", "{", "a", "}", "}", "]", " ", "b">> }
C19Texts == C19Bare \cup C19Quoted \cup C19Lists

\* /e a || <statement> | /e b, the statement being of each kind
C20_COMMAND == <<"/", "e", " ", "x", "|">>
C20_RUN == <<"/", ":", "x", "|">>
C20_BREAK == <<"/", "b", "r", "e", "a", "k", "|">>
C20Executors == { C20_COMMAND, C20_RUN, C20_BREAK }
C20Others == { <<"/", "#", " ", "c", "|">>, <<"/", "*", " ", "c", " ", "*", "|">>, <<"/", "p", "a", "r", "s", "e", "r", "-", "f", "l", "a", "g", " ", "B", "O", "G", "U", "S", "|">> }
C20Text(statement) == <<"/", "e", " ", "a", "|", "|">> \o statement \o <<"/", "e", " ", "b">>
C20Texts == { C20Text(statement) : statement \in C20Executors \cup C20Others }

\* C21: a delimiter after a run of n backslashes, in the places where the
\* delimiter is tested for: `pre` up to the run, `suf` from the delimiter on;
\* `head` and `tail` are the parts of the value before and after the run, and
\* `executors` the number of executors of the text parsed without a delimiter
C21Frame(pre, suf, head, tail, where, executors) ==
    [pre |-> pre, suf |-> suf, head |-> head, tail |-> tail, where |-> where,
     executors |-> executors]
C21Frames ==
    { C21Frame(<<"/", "e", " ", "a", " ">>, <<"|", " ", "b">>, <<"a", " ">>, <<"|", " ", "b">>, "unnamed", 1),
      C21Frame(<<"/", "e", " ", "\"", "a">>, <<"\"", "b", "\"">>, <<"a">>, <<"\"", "b">>, "unnamed", 1),
      C21Frame(<<"/", "e", " ", "{", ":", "/", "e", " ", "a">>, <<":", "}", "b", ":", "}">>, <<"a">>, <<":", "}", "b">>, "unnamed", 2),
      C21Frame(<<"/", "e", " ", "a">>, <<"{", ":", "b">>, <<"a">>, <<"{", ":", "b">>, "unnamed", 1),
      C21Frame(<<"/", "s", " ", "a">>, <<" ", "b">>, <<"a">>, <<" ", "b">>, "unnamed", 1),
      C21Frame(<<"/", "e", " ", "k", "=", "a">>, <<" ", "b">>, <<"a">>, <<" ", "b">>, "named", 1),
      C21Frame(<<"/", ":", "a">>, <<"|", "b">>, <<"a">>, <<"|", "b">>, "unnamed", 1) }
C21Text(f, n) == f.pre \o Backslashes(n) \o f.suf
C21Texts == { C21Text(f, n) : f \in C21Frames, n \in 0..MaxEsc }

\* C23: /e {: <statement> :}|/e z and /e {: <statement> |/e y:}|/e z, the
\* statement being of each kind
C23_OPEN == <<"/", "e", " ", "{", ":">>
C23_AFTER == <<"|", "/", "e", " ", "z">>
C23Comments == { <<"/", "#", " ", "c">>, <<"/", "/", " ", "c">>, <<"/", "*", " ", "c">>, <<"/", "*", " ", "c", " ", "*", "|">> }
C23Others == { <<"/", "p", "a", "r", "s", "e", "r", "-", "f", "l", "a", "g", " ", "S", "T", "R", "I", "C", "T", "_", "E", "S", "C", "A", "P", "I", "N", "G", " ", "o", "n">>, <<"/", ":", "x">>, <<"/", "b", "r", "e", "a", "k", "p", "o", "i", "n", "t">>, <<"/", "b", "r", "e", "a", "k">>, <<"/", "b", "r", "e", "a", "k", " ", "1">>, <<"/", "e", " ", "a">> }
C23Ends == { CLOSE, <<"|", "/", "e", " ", "y", ":", "}">> }
C23Text(statement, end) == C23_OPEN \o statement \o end \o C23_AFTER
C23Texts == { C23Text(statement, end) : statement \in C23Comments \cup C23Others, end \in C23Ends }

\* C24: a line comment, first or after a command, with a body that holds
\* no unescaped pipe, at the end of the input or before a pipe and a command
C24Prefixes == { <<>>, <<"/", "e", " ", "a", "|">> }
C24Openers == { <<"/", "/">>, <<"/", "#">> }
C24Bodies == { <<>>, <<" ", "c">>, <<" ", "a", "\\", "|", "b">>, <<" ", "c", " ", " ">> }
C24_COMMAND == <<"|", "/", "e", " ", "z">>
C24Tails == { <<>>, C24_COMMAND }
C24Text(prefix, opener, body, tail) == prefix \o opener \o body \o tail
C24Texts ==
    { C24Text(prefix, opener, body, tail) :
        prefix \in C24Prefixes, opener \in C24Openers, body \in C24Bodies, tail \in C24Tails }

\* C25: a block comment holding a nested one, the outer end marker right
\* after the nested one's, after a blank, or after more comment text
C25_OUTER == <<"/", "*", " ", "a", " ">>
C25_INNER == <<"/", "*", " ", "b", " ", "*", "|">>
C25_END == <<"*", "|">>
C25Gaps == { <<>>, <<" ">>, <<" ", "c", " ">> }
C25Tails == { <<>>, <<"/", "e", " ", "z">> }
C25Comment(gap) == C25_OUTER \o C25_INNER \o gap \o C25_END
C25Text(gap, tail) == C25Comment(gap) \o tail
C25Texts == { C25Text(gap, tail) : gap \in C25Gaps, tail \in C25Tails }

\* C26: /breakpoint before a pipe, before the end of a closure and at the
\* end of the input, first in its closure or after a command
C26_BREAKPOINT == <<"/", "b", "r", "e", "a", "k", "p", "o", "i", "n", "t">>
C26Frame(pre, post, closure) == [pre |-> pre, post |-> post, closure |-> closure]
C26Frames ==
    { C26Frame(<<>>, <<"|", "/", "e", " ", "z">>, 1), C26Frame(<<"/", "e", " ", "a", "|">>, <<"|", "/", "e", " ", "z">>, 1), C26Frame(<<>>, <<" ", "|", "/", "e", " ", "z">>, 1),
      C26Frame(<<"/", "e", " ", "a", "|">>, <<"|">>, 1),
      C26Frame(<<>>, <<>>, 1), C26Frame(<<"/", "e", " ", "a", "|">>, <<>>, 1),
      C26Frame(<<"/", "e", " ", "{", ":">>, <<":", "}">>, 2), C26Frame(<<"/", "e", " ", "{", ":", "/", "e", " ", "a", "|">>, <<":", "}">>, 2), C26Frame(<<"/", "e", " ", "{", ":">>, <<"|", "/", "e", " ", "z", ":", "}">>, 2) }
C26Text(f) == f.pre \o C26_BREAKPOINT \o f.post
C26Texts == { C26Text(f) : f \in C26Frames }
\* the calls with and without a debug controller
DebugCalls(texts) ==
    [text : texts, verifyCommandNames : BOOLEAN, STRICT_ESCAPING : BOOLEAN,
     REPLACE_GETVAR : {FALSE}, experimental_macro_engine : {FALSE},
     debugController : BOOLEAN]

\* C27: run-shorthand statements: a target (none, bare, quoted), named
\* arguments, further unnamed text or none, at the root or in a closure
C27Target(text, value) == [text |-> text, value |-> value]
C27Targets ==
    { C27Target(<<>>, <<>>), C27Target(<<"a">>, <<"a">>), C27Target(<<"\"", "a", "\"">>, <<"a">>), C27Target(<<"\"", "a", " ", "b", "\"">>, <<"a", " ", "b">>) }
C27Named == { <<>>, <<" ", "k", "=", "v">>, <<" ", "k", "=", "v", " ", " ">> }
C27Further == { <<>>, <<" ", "b">>, <<" ", "\"", "b", "\"">>, <<" ", "{", ":", "/", "e", " ", "x", ":", "}">> }
C27Place(pre, post, closure) == [pre |-> pre, post |-> post, closure |-> closure]
C27Places == { C27Place(<<>>, <<>>, 1), C27Place(<<>>, <<"|", "/", "e", " ", "z">>, 1), C27Place(<<"/", "e", " ", "{", ":">>, <<":", "}">>, 2) }
C27Statement(target, named) == SYM_RUN.s \o target.text \o named
C27Text(target, named, further, place) ==
    place.pre \o C27Statement(target, named) \o further \o place.post
C27Texts ==
    { C27Text(target, named, further, place) :
        target \in C27Targets, named \in C27Named, further \in C27Further,
        place \in C27Places }

\* C30: statements whose arguments hold closures with statements of their own
C30Heads == { <<"/", "b", "r", "e", "a", "k", " ">>, <<"/", "e", " ">> }
C30Pres == { <<>>, <<"/", "e", " ", "a", "|">> }
C30Posts == { <<>>, <<"|", "/", "e", " ", "c">> }
C30_NESTED == <<"{", ":", "/", "e", " ", "b", "|", "/", "e", " ", "d", ":", "}">>
C30Text(pre, head, post) == pre \o head \o C30_NESTED \o post
C30Texts == { C30Text(pre, head, post) : pre \in C30Pres, head \in C30Heads, post \in C30Posts }

\* C29: one macro in a value: after `{{` padding or a flag or neither, the
\* identifier, then nothing, an argument after `::` or after a blank, or a
\* blank; the value ends with the macro or goes on
C29Leads == { <<>>, <<" ">>, <<"!">> }
C29_IDENTIFIER == <<"a", "b">>
C29Rests == { <<>>, <<":", ":", "x">>, <<" ", "x">>, <<" ">> }
\* a value begins after `pre`; `blanks`: whitespace does not end the value
C29Frame(pre, post, blanks) == [pre |-> pre, post |-> post, blanks |-> blanks]
C29Frames ==
    { C29Frame(ECHO, <<>>, TRUE), C29Frame(ECHO, <<"c">>, TRUE),
      C29Frame(ECHO, <<" ", "c">>, TRUE),
      C29Frame(ECHO \o <<QUOTE>>, <<QUOTE>>, TRUE),
      C29Frame(ECHO \o <<QUOTE>>, <<"c", QUOTE>>, TRUE),
      C29Frame(ECHO \o <<"k", "=">>, <<>>, FALSE),
      C29Frame(ECHO \o <<"k", "=">>, <<"c">>, FALSE),
      C29Frame(ECHO \o <<"k", "=">>, <<" ", "c">>, FALSE) }
C29Macro(lead, rest) == <<"{", "{">> \o lead \o C29_IDENTIFIER \o rest \o <<"}", "}">>
\* the macros that stand in one value of the frame
C29Macros(f) ==
    { m \in C29Leads \X C29Rests :
        f.blanks \/ \A i \in 1..Len(m[1] \o m[2]) : ~IsSpace((m[1] \o m[2])[i]) }
C29Text(f, lead, rest) == f.pre \o C29Macro(lead, rest) \o f.post
C29Texts == UNION { { C29Text(f, m[1], m[2]) : m \in C29Macros(f) } : f \in C29Frames }

\* C31: a /let in the enclosing closure after a nested closure has ended,
\* and a /let whose own argument is the nested closure
C31Texts ==
    { <<"/", "e", " ", "{", ":", "/", "e", " ", "a", ":", "}", "|", "/", "l", "e", "t", " ", "x", " ", "1">>, <<"/", "l", "e", "t", " ", "k", "e", "y", "=", "x", " ", "{", ":", "/", "e", " ", "a", ":", "}">>, <<"/", "e", " ", "{", ":", "/", "e", " ", "a", ":", "}", "|", "/", "e", " ", "b">>, <<"/", "e", " ", "{", ":", "/", "l", "e", "t", " ", "y", " ", "1", "|", "/", "e", " ", "a", ":", "}", "|", "/", "l", "e", "t", " ", "x", " ", "1">> }

\* C32: /let with the name as first unnamed value or as key=, with and
\* without a further unnamed argument, at the root and in a closure
C32Forms == { <<"x", " ", "1">>, <<"x">>, <<"\"", "x", "\"", " ", "1">>, <<"k", "e", "y", "=", "x", " ", "1">>, <<"k", "e", "y", "=", "x">>, <<"k", "e", "y", "=", "x", " ">>, <<"k", "e", "y", "=", "\"", "x", "\"">> }
C32Place(pre, post, closure) == [pre |-> pre, post |-> post, closure |-> closure]
C32Places ==
    { C32Place(<<>>, <<>>, 1), C32Place(<<>>, <<"|", "/", "e", " ", "a">>, 1), C32Place(<<"/", "e", " ", "{", ":">>, <<":", "}">>, 2) }
C32Text(form, place) == place.pre \o <<"/", "l", "e", "t", " ">> \o form \o place.post
C32Texts == { C32Text(form, place) : form \in C32Forms, place \in C32Places }

\* C33: capped splitting with a quoted string where the cap is reached and
\* text after it: the tokens before the cap are bare, quoted or closures
C33Head(command, text, cap, closures) ==
    [command |-> command, text |-> text, cap |-> cap, closures |-> closures]
C33Heads ==
    { C33Head(<<"/", "c", " ">>, <<"a", " ">>, 1, FALSE), C33Head(<<"/", "c", " ">>, <<"\"", "a", "\"", " ">>, 1, FALSE),
      C33Head(<<"/", "c", " ">>, <<"{", ":", ":", "}", " ">>, 1, TRUE), C33Head(<<"/", "c", " ">>, <<"{", ":", ":", "}">>, 1, TRUE),
      C33Head(<<"/", "d", " ">>, <<"a", " ", "a", " ">>, 2, FALSE), C33Head(<<"/", "d", " ">>, <<"a", " ", "\"", "a", "\"", " ">>, 2, FALSE),
      C33Head(<<"/", "d", " ">>, <<"{", ":", ":", "}", " ", "a", " ">>, 2, TRUE), C33Head(<<"/", "d", " ">>, <<"a", " ", "{", ":", ":", "}", " ">>, 2, TRUE) }
C33_QUOTED == <<"\"", "b", "\"">>
C33Rests == { <<" ", "c">>, <<"c">>, <<" ", "c", " ", "\"", "d", "\"">> }
C33Text(head, rest) == head.command \o head.text \o C33_QUOTED \o rest
C33Texts == { C33Text(head, rest) : head \in C33Heads, rest \in C33Rests }

\* C35: texts that stop in the middle of a closure, a quoted value, a list,
\* a comment, a named argument or a macro, texts made of separators only,
\* and two complete ones; they are parsed under every flag setting
C35Texts ==
    { <<"/", "e", " ", "{", ":", "/", "e", " ", "a">>,
      <<"/", "e", " ", "\"", "a">>,
      <<"/", "e", " ", "{", ":">>,
      <<"/", "*", " ", "a">>,
      <<"/", "e", " ", "{", ":", "/", "*", " ", "a">>,
      <<"/", "e", " ", "[", "a">>,
      <<":", "}">>,
      <<"|">>,
      <<"\\", "|">>,
      <<"/", "e", " ", "k", "=">>,
      <<"/">>,
      <<"/", "e", " ", "{", "{", "g", "e", "t", "v", "a", "r", ":", ":", "x">>,
      <<"/", "e", " ", "{", "{", "g", "e", "t", "v", "a", "r", ":", ":", "x", "}", "}">>,
      <<"/", "/", " ", "a">>,
      <<"/", "e", " ", "a", " ", "|", "|">>,
      <<"/", "e", " ", "{", ":", "/", "e", " ", "a", ":", "}", "|", "/", "e", " ", "b">> }
AllFlagCalls(texts) ==
    [text : texts, verifyCommandNames : BOOLEAN, STRICT_ESCAPING : BOOLEAN,
     REPLACE_GETVAR : BOOLEAN, experimental_macro_engine : {FALSE},
     debugController : {FALSE}]

\* C37: a /parser-flag statement in a nested closure, one or two levels
\* down, for a known and for an unknown flag, with statements of the
\* enclosing closure after the closure
C37_STRICT_ON ==
    <<"/", "e", " ", "{", ":", "/", "p", "a", "r", "s", "e", "r", "-", "f", "l", "a", "g", " ", "S", "T", "R", "I", "C", "T", "_", "E", "S", "C", "A", "P", "I", "N", "G", " ", "o", "n", ":", "}", "|", "/", "e", " ", "\"", "a", "|", "b", "\"">>
C37_STRICT_OFF ==
    <<"/", "e", " ", "{", ":", "/", "p", "a", "r", "s", "e", "r", "-", "f", "l", "a", "g", " ", "S", "T", "R", "I", "C", "T", "_", "E", "S", "C", "A", "P", "I", "N", "G", " ", "o", "f", "f", ":", "}", "|", "/", "e", " ", "b">>
C37_TWO_LEVELS ==
    <<"/", "e", " ", "{", ":", "/", "e", " ", "{", ":", "/", "p", "a", "r", "s", "e", "r", "-", "f", "l", "a", "g", " ", "R", "E", "P", "L", "A", "C", "E", "_", "G", "E", "T", "V", "A", "R", " ", "o", "n", ":", "}", ":", "}", "|", "/", "e", " ", "b">>
C37_NEXT_FLAG ==
    <<"/", "e", " ", "{", ":", "/", "p", "a", "r", "s", "e", "r", "-", "f", "l", "a", "g", " ", "S", "T", "R", "I", "C", "T", "_", "E", "S", "C", "A", "P", "I", "N", "G", " ", "o", "n", ":", "}", "|", "/", "e", " ", "b", "|", "/", "p", "a", "r", "s", "e", "r", "-", "f", "l", "a", "g", " ", "S", "T", "R", "I", "C", "T", "_", "E", "S", "C", "A", "P", "I", "N", "G", " ", "o", "f", "f", "|", "/", "e", " ", "c">>
C37_UNKNOWN ==
    <<"/", "e", " ", "{", ":", "/", "p", "a", "r", "s", "e", "r", "-", "f", "l", "a", "g", " ", "B", "O", "G", "U", "S", " ", "o", "n", ":", "}", "|", "/", "e", " ", "b">>
C37_LOWER_CASE ==
    <<"/", "e", " ", "{", ":", "/", "p", "a", "r", "s", "e", "r", "-", "f", "l", "a", "g", " ", "s", "t", "r", "i", "c", "t", "_", "e", "s", "c", "a", "p", "i", "n", "g", " ", "o", "n", ":", "}", "|", "/", "e", " ", "b">>
C37_NAMED ==
    <<"/", "e", " ", "k", "=", "{", ":", "/", "p", "a", "r", "s", "e", "r", "-", "f", "l", "a", "g", " ", "S", "T", "R", "I", "C", "T", "_", "E", "S", "C", "A", "P", "I", "N", "G", " ", "o", "n", ":", "}", " ", "a", "|", "/", "e", " ", "b">>
C37Texts ==
    { C37_STRICT_ON, C37_STRICT_OFF, C37_TWO_LEVELS, C37_NEXT_FLAG,
      C37_UNKNOWN, C37_LOWER_CASE, C37_NAMED }

Texts ==
    C1Texts \cup C2Texts \cup C3Texts \cup C5Texts \cup C6Texts \cup C7Texts \cup C8Texts
        \cup C9Texts \cup C10Texts \cup C12Texts \cup C13Texts \cup C14Texts
        \cup C16Texts \cup C17Texts \cup C18Texts
        \cup C19Texts \cup C20Texts \cup C21Texts \cup C23Texts \cup C24Texts \cup C25Texts \cup C27Texts \cup C29Texts \cup C30Texts \cup C31Texts \cup C32Texts \cup C33Texts

\* The calls made: every text under both verification settings and both
\* escaping modes with the legacy rewrite off, and the texts of the legacy
\* rewrite with the rewrite and the macro engine on and off.
PlainCalls(texts) ==
    [text : texts, verifyCommandNames : BOOLEAN, STRICT_ESCAPING : BOOLEAN,
     REPLACE_GETVAR : {FALSE}, experimental_macro_engine : {FALSE},
     debugController : {FALSE}]
RewriteCalls(texts) ==
    [text : texts, verifyCommandNames : BOOLEAN, STRICT_ESCAPING : {FALSE},
     REPLACE_GETVAR : BOOLEAN, experimental_macro_engine : BOOLEAN,
     debugController : {FALSE}]
Calls ==
    PlainCalls(Texts) \cup AllFlagCalls(C35Texts \cup C37Texts) \cup RewriteCalls(GetvarTexts \cup C28ListTexts) \cup DebugCalls(C26Texts)

\* The calls that are made a second time on a newly constructed parser.
RepeatedCalls == RewriteCalls(GetvarTexts) \cup PlainCalls(C6Texts)

\* The calls after which the parser is used again, and the calls it is used for.
EarlierCalls == PlainCalls(C12Earlier)
LaterCalls == PlainCalls(C12Later)

----------------------------------------------------------------------------
(* The state machine: a parser is constructed, then parse() is called;     *)
(* after that either the same call is made on a second, newly constructed  *)
(* parser, or another call is made on the same parser.                     *)

Init ==
    /\ parser = NewParser
    /\ call \in Calls
    /\ phase = "ready"
    /\ previous = <<>>
    /\ stream = NoStream
    /\ walker = NoWalker

Parse ==
    /\ phase = "ready"
    /\ parser' = Do("ParseCall", <<parser, call>>)
    /\ phase' = "done"
    /\ UNCHANGED <<call, previous, stream, walker>>

\* new SlashCommandParser().parse(...) with the arguments of the call before
ParseRepeated ==
    /\ phase = "done"
    /\ call \in RepeatedCalls
    /\ previous' = <<[parser |-> parser, call |-> call]>>
    /\ parser' = Do("ParseCall", <<[NewParser EXCEPT !.uuids = parser.uuids], call>>)
    /\ phase' = "repeated"
    /\ UNCHANGED <<call, stream, walker>>

\* a second parse(...) on the parser the first call used
ParseReused ==
    /\ phase = "done"
    /\ call \in EarlierCalls
    /\ \E c \in LaterCalls :
          /\ previous' = <<[parser |-> parser, call |-> call]>>
          /\ call' = c
          /\ parser' = Do("ParseCall", <<parser, c>>)
          /\ phase' = "reused"
    /\ UNCHANGED <<stream, walker>>

Next == Parse \/ ParseRepeated \/ ParseReused

Spec == Init /\ [][Next]_vars

----------------------------------------------------------------------------
(* What a finished parse left behind.                                      *)

Done == phase = "done"
Succeeded == Done /\ ~Failed(parser)
\* the executor list of the root closure, empty while there is none
RootExecutors == IF parser.closures # <<>> THEN parser.closures[1].executorList ELSE <<>>
\* the unnamed values of an executor, as texts
UnnamedTexts(e) == [i \in 1..Len(e.unnamedArgumentList) |-> ValueText(e.unnamedArgumentList[i])]

----------------------------------------------------------------------------
(* C1: strict escaping                                                     *)

C1Case(pre, n, suf) == Done /\ call.STRICT_ESCAPING /\ call.text = C1Text(pre, n, suf)

C1Literal(pre, n, suf) ==
    LET first == parser.executors[RootExecutors[1]]
    IN  /\ Len(RootExecutors) = 1
        /\ first.end = Len(call.text)
        /\ UnnamedTexts(first) =
             << Trim(pre \o Backslashes((n - 1) \div 2) \o <<"|">> \o suf) >>

C1Active(pre, n, suf) ==
    LET first == parser.executors[RootExecutors[1]]
        value == Trim(pre \o Backslashes(n \div 2))
    IN  /\ Len(RootExecutors) >= 1
        /\ first.end = Len(ECHO \o pre) + n
        /\ UnnamedTexts(first) = IF value = <<>> THEN <<>> ELSE <<value>>
        /\ suf = C1Second =>
             /\ Len(RootExecutors) = 2
             /\ UnnamedTexts(parser.executors[RootExecutors[2]]) = <<TAIL_TEXT>>

\* C1: in strict-escaping mode a pipe preceded by a run of n backslashes is
\* literal text when n is odd (the value receives (n-1)/2 backslashes and the
\* pipe, and the statement goes on to the end of the input) and ends the
\* statement when n is even (the value receives n/2 backslashes, and a command
\* after the pipe is a second statement).
C1_StrictEscapingParity ==
    \A pre \in C1Prefixes, n \in 0..MaxEsc, suf \in C1Suffixes :
        C1Case(pre, n, suf) =>
            /\ ~Failed(parser)
            /\ IF n % 2 = 1 THEN C1Literal(pre, n, suf) ELSE C1Active(pre, n, suf)

\* `/e abc \\\| /e def` parsed strictly: one statement, value `abc \| /e def`
C1_Witness ==
    /\ C1Case(<<"a", "b", "c", " ">>, 3, C1Second)
    /\ Len(RootExecutors) = 1
    /\ UnnamedTexts(parser.executors[RootExecutors[1]]) =
         << <<"a", "b", "c", " ", BS, "|", " ", "/", "e", " ", "d", "e", "f">> >>

----------------------------------------------------------------------------
(* C2: pipe injection                                                      *)

\* the executor list of the closure the two commands of C2Text are in
C2List(nested) ==
    LET cid == IF nested THEN 2 ELSE 1
    IN  IF Len(parser.closures) >= cid THEN parser.closures[cid].executorList ELSE <<>>

\* C2: of two consecutive generic commands of a closure (the root or a nested
\* one), the second has pipe injection enabled when one pipe separates them and
\* disabled when two consecutive pipes do.
C2_PipeInjection ==
    \A first \in C2Firsts, l \in 0..1, k \in 1..2, r \in 0..1, nested \in BOOLEAN :
        (Done /\ call.text = C2Text(first, l, k, r, nested)) =>
            /\ ~Failed(parser)
            /\ Len(C2List(nested)) = 2
            /\ parser.executors[C2List(nested)[1]].injectPipe
            /\ parser.executors[C2List(nested)[2]].name = <<"e">>
            /\ parser.executors[C2List(nested)[2]].injectPipe = (k = 1)

\* `/e a || /e b`: the second executor does not take the pipe
C2_Witness ==
    /\ Done
    /\ call.text = C2Text(ECHO \o <<"a">>, 1, 2, 1, FALSE)
    /\ Len(RootExecutors) = 2
    /\ ~parser.executors[RootExecutors[2]].injectPipe

----------------------------------------------------------------------------
(* C3, C4: unregistered command names                                      *)

C3Case(prefix, name, rest, nested) == Done /\ call.text = C3Text(prefix, name, rest, nested)

\* C3: with verification enabled an unregistered command name makes parse throw
\* UnknownCommand, the error's offset being the offset of the first character
\* of the name, whatever follows the name.
C3_UnknownCommandOffset ==
    \A prefix \in C3Prefixes, name \in C3Names, rest \in C3Rests, nested \in BOOLEAN :
        (C3Case(prefix, name, rest, nested) /\ call.verifyCommandNames) =>
            /\ parser.err.kind = "UnknownCommand"
            /\ parser.err.index = C3NameOffset(prefix, nested)

\* the executors of the closure the unregistered command is in
C4List(nested) == C2List(nested)

\* C4: with verification disabled an unregistered command name raises no error;
\* an executor with that name and no resolved command is in the enclosing
\* closure's executor list and in the command index.
C4_UnverifiedUnknownCommand ==
    \A prefix \in C3Prefixes, name \in C3Names, rest \in C3Rests, nested \in BOOLEAN :
        (C3Case(prefix, name, rest, nested) /\ ~call.verifyCommandNames) =>
            /\ ~Failed(parser)
            /\ \E i \in 1..Len(C4List(nested)) :
                 LET id == C4List(nested)[i]
                 IN  /\ parser.executors[id].name = name
                     /\ parser.executors[id].start = C3NameOffset(prefix, nested)
                     /\ parser.executors[id].command = NoCommand
                     /\ \E j \in 1..Len(parser.commandIndex) : parser.commandIndex[j] = id

\* `/e {: /e a | /bogus  k=1 b :}` unverified: /bogus is the closure's second executor
C4_Witness ==
    /\ C3Case(ECHO \o <<"a", " ", "|", " ">>, BOGUS, <<" ", " ", "k", "=", "1", " ", "b">>, TRUE)
    /\ ~call.verifyCommandNames
    /\ Len(C4List(TRUE)) = 2
    /\ parser.executors[C4List(TRUE)[2]].name = BOGUS
    /\ parser.executors[C4List(TRUE)[2]].command = NoCommand

----------------------------------------------------------------------------
(* C5: unterminated lists                                                  *)

C5Case(head, content, trail) == Done /\ call.text = C5Text(head, content, trail)

\* C5: a list value whose `[` has no `]` before the end of input makes parse
\* throw UnterminatedList with verification enabled and with it disabled, the
\* reported offset being the input length.
C5_UnterminatedListAtLength ==
    \A head \in C5Heads, content \in C5Contents, trail \in 0..MaxTrail :
        C5Case(head, content, trail) =>
            /\ parser.err.kind = "UnterminatedList"
            /\ parser.err.index = Len(call.text)

\* C5, amended: UnterminatedList is thrown in both verification modes; the
\* offset is the input length unless the input ends with two or more
\* whitespace characters, and then it is the offset of the first of them.
C5_UnterminatedListOffset ==
    \A head \in C5Heads, content \in C5Contents, trail \in 0..MaxTrail :
        C5Case(head, content, trail) =>
            /\ parser.err.kind = "UnterminatedList"
            /\ parser.err.located
            /\ parser.err.index =
                 IF trail >= 2 THEN Len(call.text) - trail ELSE Len(call.text)

\* `/s [1,2,3` and two blanks, unverified: UnterminatedList at the first blank
C5_Witness ==
    /\ C5Case(<<"/", "s", " ">>, <<"1", ",", "2", ",", "3">>, 2)
    /\ ~call.verifyCommandNames
    /\ parser.err.kind = "UnterminatedList"
    /\ parser.err.index = 9

----------------------------------------------------------------------------
(* C6: input ending inside a nested closure                                *)

C6Case(head, body) == Done /\ call.text = C6Text(head, body)

\* C6: when the input ends inside a nested closure, a verified parse throws
\* UnclosedClosure and an unverified parse succeeds, the nested closure's body
\* ending at the end of the input.
C6_UnclosedClosure ==
    \A head \in C6Heads, body \in C6Bodies :
        C6Case(head, body) =>
            IF call.verifyCommandNames
            THEN parser.err.kind = "UnclosedClosure"
            ELSE /\ ~Failed(parser)
                 /\ Len(parser.closures) >= C6Closure(head)
                 /\ parser.closures[C6Closure(head)].rawText = body

\* `/e {: /e a` unverified: success, the nested closure's body is ` /e a`
C6_Witness ==
    /\ C6Case(ECHO, <<" ">> \o ECHO \o <<"a">>)
    /\ ~call.verifyCommandNames
    /\ ~Failed(parser)
    /\ Len(parser.closures) = 2
    /\ parser.closures[2].rawText = <<" ">> \o ECHO \o <<"a">>

----------------------------------------------------------------------------
(* C7: the closure-span index                                              *)

\* C7: after a successful parse of an input with balanced closure markers, the
\* empty input and one-character inputs included, the closure index has one
\* entry per closure, the root included, and every entry has end >= start.
C7_ClosureIndexSpans ==
    (Succeeded /\ call.text \in C7Texts) =>
        /\ Len(parser.closureIndex) = Opens(call.text) + 1
        /\ Len(parser.closureIndex) = Len(parser.closures)
        /\ \A i \in 1..Len(parser.closureIndex) :
             /\ parser.closureIndex[i].ended
             /\ parser.closureIndex[i].end >= parser.closureIndex[i].start

----------------------------------------------------------------------------
(* C8, C9, C10: the unnamed argument as a list                             *)

\* the unnamed argument list of the first executor of the root closure
FirstUnnamed ==
    IF RootExecutors # <<>> THEN parser.executors[RootExecutors[1]].unnamedArgumentList
    ELSE <<>>

\* C8: with split enabled and no cap, every quoted string, bracketed list and
\* whitespace-delimited bare token is its own element, in source order, quoted
\* elements keeping their inner whitespace and losing their quotes.
C8_SplitElements ==
    (Done /\ call.text \in C8Texts) =>
        \A es \in C8Seqs :
            call.text = C8Text(es) =>
                /\ ~Failed(parser)
                /\ FirstUnnamed = [i \in 1..Len(es) |-> StringValue(es[i].value)]

\* the texts the last element may have for the raw text `rest`
C9Remaining(rest) ==
    IF Len(rest) = 1 /\ rest[1].quoted THEN { rest[1].raw, rest[1].value }
    ELSE { JoinRaw(rest) }

\* C9: with split enabled and a cap of n, the list has at most n + 1 elements:
\* the first n tokens are separate elements and the remaining raw text is one
\* final element.
C9_SplitCap ==
    (Done /\ call.text \in C9Texts) =>
        \A n \in 1..2 : \A heads \in C9Heads(n), rest \in C9Rests, tail \in C9Tails :
            call.text = C9Text(n, heads, rest, tail) =>
                /\ ~Failed(parser)
                /\ Len(FirstUnnamed) = n + 1
                /\ \A i \in 1..n : FirstUnnamed[i] = StringValue(heads[i].value)
                /\ FirstUnnamed[n + 1].type = "string"
                /\ FirstUnnamed[n + 1].text \in C9Remaining(rest)

\* the elements the claim expects of C10Text, before and after trimming
C10Parts(q, before, after) ==
    (IF q = NoQuoted THEN <<>> ELSE <<[value |-> StringValue(q[1].value), verbatim |-> TRUE]>>)
        \o (IF before = <<>> THEN <<>>
            ELSE <<[value |-> StringValue(before), verbatim |-> FALSE]>>)
        \o <<[value |-> ClosureValue(2), verbatim |-> TRUE]>>
        \o (IF after = <<>> THEN <<>> ELSE <<[value |-> StringValue(after), verbatim |-> FALSE]>>)
C10TrimmedFirst(parts) ==
    IF parts[1].verbatim THEN parts
    ELSE IF TrimStart(parts[1].value.text) = <<>> THEN Tail(parts)
    ELSE <<[parts[1] EXCEPT !.value = StringValue(TrimStart(parts[1].value.text))]>>
             \o Tail(parts)
C10TrimmedLast(parts) ==
    LET n == Len(parts)
    IN  IF parts[n].verbatim THEN parts
        ELSE IF TrimEnd(parts[n].value.text) = <<>> THEN SubSeq(parts, 1, n - 1)
        ELSE SubSeq(parts, 1, n - 1)
                 \o <<[parts[n] EXCEPT !.value = StringValue(TrimEnd(parts[n].value.text))]>>
C10Expected(q, before, after) ==
    LET parts == C10TrimmedLast(C10TrimmedFirst(C10Parts(q, before, after)))
    IN  [i \in 1..Len(parts) |-> parts[i].value]

\* C10: of an unnamed argument decomposed into a list only the first element is
\* left-trimmed and only the last right-trimmed, and only when not quoted; an
\* element is removed only when trimming emptied it, so a quoted element is
\* neither altered nor removed.
C10_ListTrimming ==
    (Done /\ call.text \in C10Texts) =>
        \A q \in C10Quoted, before \in C10Befores, after \in C10Afters :
            call.text = C10Text(q, before, after) =>
                /\ ~Failed(parser)
                /\ FirstUnnamed = C10Expected(q, before, after)

----------------------------------------------------------------------------
(* C11, C12: parsing again                                                 *)

\* What a parse produced: the closures with their executors and scopes, the
\* four indexes, and the error thrown if any.
Result(p) ==
    [closures |-> p.closures, executors |-> p.executors, scopes |-> p.scopes,
     closureIndex |-> p.closureIndex, commandIndex |-> p.commandIndex,
     scopeIndex |-> p.scopeIndex, macroIndex |-> p.macroIndex, err |-> p.err]

Repeated == phase = "repeated"
Reused == phase = "reused"

\* the legacy rewrite replaced a macro during the parse
Rewrote(p) == \E i \in 1..Len(p.executors) : p.executors[i].name = NAME_RETURN

\* The text t with every generated identifier Uuid(n) in it replaced by
\* Uuid(n - by): the identifiers of a parse that drew its first one `by`
\* draws later, renamed to those of a parse that started at 0.
UuidHead == SubSeq(Uuid(0), 1, 34)
DigitValue(c) == CHOOSE d \in 0..9 : Digits[d + 1] = c
Renamed(t, by) ==
    LET IsUuidAt(k) == k >= 0 /\ k + 36 <= Len(t) /\ Slice(t, k, k + 34) = UuidHead
        Number(k) == 10 * DigitValue(t[k + 35]) + DigitValue(t[k + 36])
    IN  [i \in 1..Len(t) |->
            IF IsUuidAt(i - 35) THEN Digits[(((Number(i - 35) - by) \div 10) % 10) + 1]
            ELSE IF IsUuidAt(i - 36) THEN Digits[((Number(i - 36) - by) % 10) + 1]
            ELSE t[i]]
RenamedValue(v, by) == [v EXCEPT !.text = Renamed(@, by)]
RenamedValues(list, by) == [i \in 1..Len(list) |-> RenamedValue(list[i], by)]
RenamedAssignments(list, by) ==
    [i \in 1..Len(list) |-> [list[i] EXCEPT !.value = RenamedValue(@, by)]]
RenamedResult(p, by) ==
    [Result(p) EXCEPT
        !.executors = [i \in 1..Len(p.executors) |->
            [p.executors[i] EXCEPT
                !.unnamedArgumentList = RenamedValues(@, by),
                !.namedArgumentList = RenamedAssignments(@, by)]],
        !.closures = [i \in 1..Len(p.closures) |->
            [p.closures[i] EXCEPT !.argumentList = RenamedAssignments(@, by)]]]

FreshResult ==
    Result(ParseCall([NewParser EXCEPT !.uuids = previous[1].parser.uuids], call))

\* C12: a parse on an instance that was used before, also by a parse that
\* threw, gives the same tree, indexes or error as the same call on a newly
\* constructed instance.
C12_ReusedInstance ==
    Reused => Result(parser) = FreshResult


----------------------------------------------------------------------------
(* C13: the scope of /let                                                  *)

Elements(seq) == { seq[i] : i \in 1..Len(seq) }
\* the names of the live scope s and of its ancestors
RECURSIVE AncestorNames(_, _)
AncestorNames(p, s) ==
    IF s = 0 THEN {}
    ELSE Elements(p.scopes[s].variableNames) \cup AncestorNames(p, p.scopes[s].parent)
\* the effective variable set of a scope snapshot: its own names and all
\* its ancestors'
EffectiveNames(p, snapshot) ==
    Elements(snapshot.variableNames) \cup AncestorNames(p, snapshot.parent)
\* scope s is a proper ancestor of scope t
RECURSIVE Encloses(_, _, _)
Encloses(p, s, t) ==
    /\ t # 0
    /\ \/ p.scopes[t].parent = s
       \/ Encloses(p, s, p.scopes[t].parent)
\* the statements of the command index, with the closure whose executor list
\* holds them
Statements(p) ==
    { [closure |-> c, executor |-> p.commandIndex[j], position |-> j] :
        <<c, j>> \in { <<c, j>> \in (1..Len(p.closures)) \X (1..Len(p.commandIndex)) :
                          p.commandIndex[j] \in Elements(p.closures[c].executorList) } }
\* the /let statements that declared a name, and the name
Declares(p, st) ==
    LET e == p.executors[st.executor]
    IN  e.name = NAME_LET /\ e.unnamedArgumentList # <<>>
LetName(p, st) ==
    LET e == p.executors[st.executor]
        keys == SelectSeq(e.namedArgumentList, LAMBDA a : a.name = <<"k", "e", "y">>)
    IN  IF keys # <<>> THEN ValueText(keys[1].value) ELSE ValueText(e.unnamedArgumentList[1])
ScopeOf(p, st) == p.closures[st.closure].scope
SnapshotNames(p, st) == EffectiveNames(p, p.scopeIndex[st.position])

\* C13: a name declared by /let inside a nested closure is in the scope
\* snapshot of every statement parsed later in that closure and in the
\* closures nested in it, and in no scope snapshot of a statement of an
\* enclosing closure (which does not declare the name itself).
C13_LexicalScoping ==
    (phase # "ready" /\ ~Failed(parser)) =>
        \A let \in Statements(parser) :
            (let.closure # 1 /\ Declares(parser, let)) =>
                \A st \in Statements(parser) :
                    /\ ( /\ st.position > let.position
                         /\ \/ st.closure = let.closure
                            \/ Encloses(parser, ScopeOf(parser, let), ScopeOf(parser, st)) )
                       => LetName(parser, let) \in SnapshotNames(parser, st)
                    /\ ( /\ Encloses(parser, ScopeOf(parser, st), ScopeOf(parser, let))
                         /\ \A other \in Statements(parser) :
                               ( /\ Declares(parser, other)
                                 /\ \/ other.closure = st.closure
                                    \/ Encloses(parser, ScopeOf(parser, other), ScopeOf(parser, st)) )
                               => LetName(parser, other) # LetName(parser, let) )
                       => LetName(parser, let) \notin SnapshotNames(parser, st)
\* /let x in a closure with a later statement, a closure nested deeper and
\* statements of the enclosing closure before and after it
C13_Witness ==
    /\ Succeeded
    /\ call.text = C13Text(<<"/", "l", "e", "t", " ", "y", " ", "2", "|">>, <<"/", "l", "e", "t", " ", "x", " ", "1">>, <<"/", "e", " ", "b", "|", "/", "e", " ", "{", ":", "/", "e", " ", "c", ":", "}">>, <<"|", "/", "e", " ", "d">>)
    /\ Cardinality(Statements(parser)) = 7
    /\ \E let \in Statements(parser) :
          /\ let.closure = 2 /\ Declares(parser, let) /\ LetName(parser, let) = <<"x">>
          /\ \E st \in Statements(parser) :
                st.closure = 3 /\ <<"x">> \in SnapshotNames(parser, st)


----------------------------------------------------------------------------
(* C14: the flags an executor carries                                      *)

\* the flags after the /parser-flag statement e
FlagsAfter(flags, e) ==
    LET list == e.unnamedArgumentList
        state == IF Len(list) >= 2 THEN isTrueBoolean(ValueText(list[2])) ELSE TRUE
    IN  IF e.name # NAME_PARSER_FLAG \/ list = <<>> THEN flags
        ELSE IF ValueText(list[1]) = FLAG_STRICT_ESCAPING
        THEN [flags EXCEPT !.STRICT_ESCAPING = state]
        ELSE IF ValueText(list[1]) = FLAG_REPLACE_GETVAR
        THEN [flags EXCEPT !.REPLACE_GETVAR = state]
        ELSE flags
\* the flags of the call updated by the /parser-flag statements before
\* entry j of the command index
RECURSIVE FlagsBefore(_, _)
FlagsBefore(p, j) ==
    IF j = 1
    THEN [STRICT_ESCAPING |-> call.STRICT_ESCAPING, REPLACE_GETVAR |-> call.REPLACE_GETVAR]
    ELSE FlagsAfter(FlagsBefore(p, j - 1), p.executors[p.commandIndex[j - 1]])

\* C14: each executor carries a copy of the parser flags in force when it
\* was parsed: the flags of the call updated by exactly the /parser-flag
\* statements before it.
C14_FlagSnapshot ==
    (phase # "ready" /\ ~Failed(parser)) =>
        \A j \in 1..Len(parser.commandIndex) :
            parser.executors[parser.commandIndex[j]].parserFlags = FlagsBefore(parser, j)


----------------------------------------------------------------------------
(* C15: the command index and the scope index                              *)

\* The executors the legacy rewrite synthesises: /let of a generated name,
\* /getvar or /getglobalvar, and /return. No text parsed here has a
\* statement of these forms.
IsSynthetic(e) ==
    \/ e.name \in {NAME_RETURN, GETVAR, GETGLOBALVAR}
    \/ /\ e.name = NAME_LET /\ e.unnamedArgumentList # <<>>
       /\ \/ StartsWithAt(ValueText(e.unnamedArgumentList[1]), 0, PARSER_PIPE)
          \/ StartsWithAt(ValueText(e.unnamedArgumentList[1]), 0, PARSER_VAR)
\* the names a statement declared once its unnamed argument was parsed
DeclaredBy(p, id) ==
    IF id \in Elements(p.commandIndex) /\ p.executors[id].unnamedArgumentList # <<>>
    THEN RegisterVariables([scopes |-> <<NewScope(0)>>, scope |-> 1],
                           p.executors[id]).scopes[1].variableNames
    ELSE <<>>
\* the names declared by the first k statements of closure c
RECURSIVE DeclaredBefore(_, _, _)
DeclaredBefore(p, c, k) ==
    IF k = 0 THEN <<>>
    ELSE DeclaredBefore(p, c, k - 1) \o DeclaredBy(p, p.closures[c].executorList[k])
ArgumentNames(p, c) ==
    [i \in 1..Len(p.closures[c].argumentList) |-> p.closures[c].argumentList[i].name]
\* the copy of the closure's scope as it was when the statement began
SnapshotFor(p, st) ==
    LET list == p.closures[st.closure].executorList
        k == CHOOSE k \in 1..Len(list) : list[k] = st.executor
    IN  [parent |-> p.scopes[ScopeOf(p, st)].parent,
         variableNames |-> ArgumentNames(p, st.closure) \o DeclaredBefore(p, st.closure, k - 1)]

\* C15: the command index and the scope index have the same length, after
\* every statement and at the end of a parse; entry i of the scope index is
\* the snapshot taken for entry i of the command index, and the executors
\* the legacy rewrite synthesises are in neither.
C15_ParallelIndexes ==
    phase # "ready" =>
        /\ Len(parser.scopeIndex) = Len(parser.commandIndex)
        /\ \A id \in 1..Len(parser.executors) :
              IsSynthetic(parser.executors[id]) <=> id \notin Elements(parser.commandIndex)
        /\ ~Failed(parser) =>
              \A st \in Statements(parser) :
                  parser.scopeIndex[st.position] = SnapshotFor(parser, st)
\* a statement after a /let in a closure argument and a synthesised executor
C15_Witness ==
    /\ Succeeded /\ call.text \in C13Texts
    /\ \E st \in Statements(parser) :
          /\ parser.scopeIndex[st.position].parent # 0
          /\ parser.scopeIndex[st.position].variableNames = <<<<"x">>>>
C15_WitnessSynthetic ==
    /\ Succeeded /\ Rewrote(parser)
    /\ Len(parser.commandIndex) < Len(parser.executors)


----------------------------------------------------------------------------
(* C16: the errors of parse                                                *)

\* the eight parser errors
ParserErrorKinds ==
    { "UnknownCommand", "UnclosedClosure", "UnclosedComment", "UnclosedBlockComment",
      "UnterminatedQuote", "UnterminatedList", "UnexpectedArgumentEnd",
      "UnexpectedEndOfCommand" }

\* C16: every failure of parse is one of the eight parser errors and carries
\* the source text and the offset at which it was detected; no other
\* exception escapes.
C16_ParserErrors ==
    (phase # "ready" /\ Failed(parser)) =>
        /\ parser.err.kind \in ParserErrorKinds
        /\ parser.err.located


----------------------------------------------------------------------------
(* C17: the end of a quoted value                                          *)

\* the unnamed values, as texts, of executor k of closure c
TextsOf(c, k) == UnnamedTexts(parser.executors[parser.closures[c].executorList[k]])
ExecutorsOf(c) == Len(parser.closures[c].executorList)

\* /e "a|/e b without strict escaping: the value is a and the pipe ends the
\* statement, so /e b is the second statement
C17NonStrictPipe ==
    (Done /\ ~call.STRICT_ESCAPING /\ call.text = C17_PIPE_OPEN) =>
        /\ ~Failed(parser)
        /\ ExecutorsOf(1) = 2
        /\ TextsOf(1, 1) = <<<<"a">>>>
        /\ TextsOf(1, 2) = <<<<"b">>>>
\* /e {:/e "a:}|/e b without strict escaping: the value is a and the closure
\* end closes the closure
C17NonStrictClosureEnd ==
    (Done /\ ~call.STRICT_ESCAPING /\ call.text = C17_CLOSURE_OPEN) =>
        /\ ~Failed(parser)
        /\ ExecutorsOf(1) = 2 /\ Len(parser.closures) = 2 /\ ExecutorsOf(2) = 1
        /\ TextsOf(2, 1) = <<<<"a">>>>
        /\ TextsOf(1, 2) = <<<<"b">>>>
\* /e "a|b" with strict escaping: the pipe is text of the value
C17StrictPipe ==
    (Done /\ call.STRICT_ESCAPING /\ call.text = C17_PIPE_CLOSED) =>
        /\ ~Failed(parser)
        /\ ExecutorsOf(1) = 1
        /\ TextsOf(1, 1) = <<<<"a", "|", "b">>>>

\* C17: without strict escaping a quoted value that meets an unescaped pipe
\* or a closure end before a closing quote ends there and the delimiter ends
\* the enclosing statement; with strict escaping only an unescaped quote
\* ends it, a pipe inside the quotes being text.
C17_QuotedValueEnd ==
    C17NonStrictPipe /\ C17NonStrictClosureEnd /\ C17StrictPipe


----------------------------------------------------------------------------
(* C18: macros in the text of an unnamed argument                          *)

\* the offsets at which a macro opens in the text of the call
MacroStarts == { k \in 0..(Len(call.text) - 2) : IsMacroOpen(call.text, k) }
IndexedStarts(p) == { p.macroIndex[i].start : i \in 1..Len(p.macroIndex) }

\* C18: every macro in a plain-text part of an unnamed argument has a macro
\* index entry, whether the argument becomes one value or a list, also in
\* text before or after a quoted part or a closure.
C18_MacrosIndexed ==
    (Done /\ call.text \in C18Texts) =>
        /\ ~Failed(parser)
        /\ MacroStarts \subseteq IndexedStarts(parser)


----------------------------------------------------------------------------
(* C19: the spans of the macro index                                       *)

\* The offset just past the }} that matches a macro opened before offset i
\* at nesting depth `depth`, the end of the text when there is none. In the
\* texts parsed here a macro without its }} runs to the end of the text.
RECURSIVE MatchingEnd(_, _, _)
MatchingEnd(t, i, depth) ==
    IF i + 2 > Len(t) THEN Len(t)
    ELSE IF IsMacroOpen(t, i) THEN MatchingEnd(t, i + 2, depth + 1)
    ELSE IF IsMacroClose(t, i)
    THEN IF depth = 1 THEN i + 2 ELSE MatchingEnd(t, i + 2, depth - 1)
    ELSE MatchingEnd(t, i + 1, depth)
SpanCorrect(m) ==
    /\ IsMacroOpen(call.text, m.start)
    /\ m.end = MatchingEnd(call.text, m.start + 2, 1)
SpansNested(p) ==
    \A i, j \in 1..Len(p.macroIndex) :
        (p.macroIndex[i].start < p.macroIndex[j].start
            /\ p.macroIndex[j].start < p.macroIndex[i].end)
        => p.macroIndex[j].end <= p.macroIndex[i].end

\* C19: every macro index entry starts at the {{ of its macro and ends just
\* past the matching }} (at the end of the value when there is none), and an
\* inner macro's range lies within its enclosing macro's, in bare, quoted and
\* list values alike.
C19_MacroSpans ==
    (Done /\ call.text \in C19Texts) =>
        /\ ~Failed(parser)
        /\ \A i \in 1..Len(parser.macroIndex) : SpanCorrect(parser.macroIndex[i])
        /\ SpansNested(parser)


----------------------------------------------------------------------------
(* C20: || and the statements after it                                     *)

\* executor k of the root closure
RootExecutor(k) == parser.executors[RootExecutors[k]]

\* C20: after ||, pipe injection is off for the statement that follows it,
\* whatever its kind, and on again for every later statement of the closure.
C20_SuppressedOnce ==
    \A statement \in C20Executors \cup C20Others :
        (Done /\ call.text = C20Text(statement)) =>
            /\ ~Failed(parser)
            /\ RootExecutor(Len(RootExecutors)).name = <<"e">>
            /\ RootExecutor(Len(RootExecutors)).injectPipe
            /\ statement \in C20Executors =>
                  /\ Len(RootExecutors) = 3
                  /\ ~RootExecutor(2).injectPipe


----------------------------------------------------------------------------
(* C21: escapes in loose mode                                              *)

Loose == ~call.STRICT_ESCAPING
\* the values of executor e that text f parsed into: unnamed or named ones
C21Values(f, e) ==
    IF f.where = "unnamed" THEN UnnamedTexts(e)
    ELSE [i \in 1..Len(e.namedArgumentList) |-> ValueText(e.namedArgumentList[i].value)]
C21Case(f, n) == Done /\ Loose /\ call.text = C21Text(f, n)

\* C21: in loose mode a delimiter (pipe, quote, closure start, closure end,
\* whitespace of a split or named value) that follows a run of n >= 1
\* backslashes is not a delimiter: the value goes on through it, having lost
\* the last backslash of the run and no other, and the statement is the only
\* one parsed.
C21_LooseEscape ==
    \A f \in C21Frames, n \in 1..MaxEsc :
        C21Case(f, n) =>
            /\ ~Failed(parser)
            /\ Len(parser.executors) = f.executors
            /\ C21Values(f, parser.executors[f.executors])[1]
                 = f.head \o Backslashes(n - 1) \o f.tail

\* `/e a \\| b` parsed loosely: one statement with the value `a \| b`
C21_Witness ==
    /\ Done /\ Loose /\ ~Failed(parser)
    /\ call.text = <<"/", "e", " ", "a", " ", "\\", "\\", "|", " ", "b">>
    /\ Len(parser.executors) = 1
    /\ UnnamedTexts(parser.executors[1]) = << <<"a", " ", "\\", "|", " ", "b">> >>


----------------------------------------------------------------------------
(* The scanner alone: a text is loaded and the three scanner methods are    *)
(* called in any order, testSymbol with any symbol of the grammar at        *)
(* offset 0 or 1. Here `phase` names the method called last ("loaded" when  *)
(* none was) and `previous` holds the parser as the last take() or          *)
(* whitespace skip left it (as it was loaded when there was none).          *)

Symbols ==
    { SYM_CLOSURE, SYM_CLOSURE_END, SYM_PIPE, SYM_CALL, SYM_BLOCK_COMMENT,
      SYM_BLOCK_COMMENT_END, SYM_PARSER_FLAG, SYM_RUN, SYM_COMMAND, SYM_QUOTE,
      SYM_LIST, SYM_LIST_END, RE_SPACE, RE_BREAKPOINT, RE_BREAK, RE_COMMENT }

\* runs of backslashes before each delimiter, at the start of the text and
\* after a character or a blank
ScanDelimiters == { <<"|">>, <<":", "}">>, <<"\"">>, <<" ">>, <<"{", ":">>, <<"*", "|">> }
ScanHeads == { <<>>, <<"a">>, <<" ">> }
\* C34: texts that end in no, one or two whitespace characters; the cursor
\* comes to stand on each of them by take and discardWhitespace
C34Texts == { <<"a">>, <<"a", " ">>, <<"a", " ", " ">>, <<" ", " ">>, <<"a", " ", " ", "b", " ">> }
ScanTexts ==
    { head \o Backslashes(n) \o d \o <<"b">> :
        head \in ScanHeads, n \in 0..MaxEsc, d \in ScanDelimiters }
        \cup C34Texts
ScanCalls ==
    [text : ScanTexts, verifyCommandNames : {TRUE}, STRICT_ESCAPING : BOOLEAN,
     REPLACE_GETVAR : {FALSE}, experimental_macro_engine : {FALSE},
     debugController : {FALSE}]

\* The text of a call loaded; the skip flag is as an earlier parse left it.
ScanInit ==
    /\ call \in ScanCalls
    /\ \E jumped \in BOOLEAN :
          parser = [NewParser EXCEPT !.text = call.text,
                                     !.verifyCommandNames = call.verifyCommandNames,
                                     !.flags = Flags(call.STRICT_ESCAPING),
                                     !.jumpedEscapeSequence = jumped]
    /\ phase = "loaded"
    /\ previous = <<[parser |-> parser, call |-> call]>>
    /\ stream = NoStream
    /\ walker = NoWalker

\* this.testSymbol(sequence, offset)
TestSymbol ==
    /\ phase \in {"loaded", "testSymbol", "take", "discardWhitespace"}
    /\ \E sequence \in Symbols, offset \in 0..1 :
          parser' = Do("testSymbolAt", <<parser, sequence, offset>>)
    /\ phase' = "testSymbol"
    /\ UNCHANGED <<call, previous, stream, walker>>

\* this.take(length), while there is text left
TakeCharacters ==
    /\ phase \in {"loaded", "testSymbol", "take", "discardWhitespace"}
    /\ parser.index < Len(parser.text)
    /\ \E length \in 1..2 : parser' = Take(parser, length)
    /\ phase' = "take"
    /\ previous' = <<[parser |-> parser', call |-> call]>>
    /\ UNCHANGED <<call, stream, walker>>

\* this.discardWhitespace() with whitespace at the cursor (without, the call
\* changes nothing)
SkipWhitespace ==
    /\ phase \in {"loaded", "testSymbol", "take", "discardWhitespace"}
    /\ IsSpace(Char(parser))
    /\ parser' = DiscardWhitespace(parser)
    /\ phase' = "discardWhitespace"
    /\ previous' = <<[parser |-> parser', call |-> call]>>
    /\ UNCHANGED <<call, stream, walker>>

ScanNext == TestSymbol \/ TakeCharacters \/ SkipWhitespace

ScanSpec == ScanInit /\ [][ScanNext]_vars

----------------------------------------------------------------------------
(* C22: one skip between two consumptions                                  *)

\* the cursor as the last take() or whitespace skip left it
Consumed == previous[1].parser.index
Scanning == phase \in {"loaded", "testSymbol", "take", "discardWhitespace"}

\* C22: whatever delimiter tests are made after a take() or a whitespace skip,
\* with whichever symbols and in either escaping mode, the cursor is where
\* the consumption left it or one position further, and it is further only
\* over a backslash and with the skip flag set; a take() and a whitespace
\* skip leave the skip flag cleared.
C22_OneSkip ==
    Scanning =>
        /\ parser.index \in {Consumed, Consumed + 1}
        /\ parser.index = Consumed + 1 =>
              /\ parser.jumpedEscapeSequence
              /\ parser.text[Consumed + 1] = BS
        /\ phase \in {"take", "discardWhitespace"} => ~parser.jumpedEscapeSequence

\* after a take() a test has skipped the backslash of `a\\|b`, in strict mode,
\* and a further test has found no match
C22_Witness ==
    /\ phase = "testSymbol" /\ call.STRICT_ESCAPING
    /\ call.text = <<"a", "\\", "\\", "|", "b">>
    /\ Consumed = 1 /\ parser.index = 2
    /\ parser.jumpedEscapeSequence /\ ~parser.ret


----------------------------------------------------------------------------
(* C23: where statements end                                               *)

\* the offset of the first terminator after the statement of C23Text
C23Terminator(statement) == Len(C23_OPEN \o statement)
\* the executor of the statement: the one indexed right after the outer /e
C23Statement == parser.executors[parser.commandIndex[2]]

\* C23: a statement of any kind inside a closure ends at the pipe or at the
\* closure end that follows it: its executor ends there, the closure ends at
\* its `:}`, and the command after the closure is the second statement of the
\* root.
C23_StatementEnds ==
    \A statement \in C23Comments \cup C23Others, end \in C23Ends :
        (Done /\ call.text = C23Text(statement, end)) =>
            /\ ~Failed(parser)
            /\ Len(parser.commandIndex) >= 3
            /\ C23Statement.end <= C23Terminator(statement) + 1
            /\ parser.closureIndex[2].end = Len(C23_OPEN \o statement \o end) - 1
            /\ Len(RootExecutors) = 2
            /\ UnnamedTexts(parser.executors[RootExecutors[2]]) = << <<"z">> >>


----------------------------------------------------------------------------
(* C24: line comments                                                      *)

\* the entries of the command index that are line comments
CommentEntries ==
    { i \in 1..Len(parser.commandIndex) :
        /\ parser.executors[parser.commandIndex[i]].name \in { <<"/">>, <<"#">> }
        /\ parser.executors[parser.commandIndex[i]].command = <<"/">> }
C24Case(prefix, opener, body, tail) == Done /\ call.text = C24Text(prefix, opener, body, tail)
\* the comment of C24Text is indexed once and ends at offset `end`
C24Comment(prefix, opener, end) ==
    /\ Cardinality(CommentEntries) = 1
    /\ \A i \in CommentEntries :
          LET comment == parser.executors[parser.commandIndex[i]]
          IN  /\ comment.start = Len(prefix) + 1
              /\ comment.name = <<opener[2]>>
              /\ comment.ended => comment.end = end
\* the commands around the comment are the statements of the root
C24Commands(prefix, tail) ==
    /\ ~Failed(parser)
    /\ Len(RootExecutors) = (IF prefix = <<>> THEN 0 ELSE 1) + (IF tail = <<>> THEN 0 ELSE 1)
    /\ tail # <<>> =>
          UnnamedTexts(parser.executors[RootExecutors[Len(RootExecutors)]]) = << <<"z">> >>

\* C24 as stated: the comment ends at the next unescaped pipe or at the end
\* of the input and the parse completes, one comment entry being indexed.
C24_CommentEnds ==
    \A prefix \in C24Prefixes, opener \in C24Openers, body \in C24Bodies, tail \in C24Tails :
        C24Case(prefix, opener, body, tail) =>
            /\ C24Commands(prefix, tail)
            /\ C24Comment(prefix, opener, Len(prefix \o opener \o body))
            /\ \A i \in CommentEntries : parser.executors[parser.commandIndex[i]].ended

\* C24 amended: a line comment ends at the next unescaped pipe and the parse
\* goes on with the statement after it; with no such pipe it ends at the end
\* of the input and the parse completes when verification is off, and the
\* parse throws UnclosedComment when verification is on. One comment entry
\* is indexed in each case.
C24_CommentEndsOrUnclosed ==
    \A prefix \in C24Prefixes, opener \in C24Openers, body \in C24Bodies, tail \in C24Tails :
        C24Case(prefix, opener, body, tail) =>
            /\ C24Comment(prefix, opener, Len(prefix \o opener \o body))
            /\ IF tail = <<>> /\ call.verifyCommandNames
               THEN /\ parser.err.kind = "UnclosedComment"
                    /\ parser.err.located
                    /\ parser.err.index <= Len(call.text)
                    /\ \A i \in CommentEntries : ~parser.executors[parser.commandIndex[i]].ended
               ELSE /\ C24Commands(prefix, tail)
                    /\ \A i \in CommentEntries : parser.executors[parser.commandIndex[i]].ended

\* `/e a|/# c` parsed with verification: UnclosedComment at the end of the
\* input, the comment indexed
C24_Witness ==
    /\ C24Case(<<"/", "e", " ", "a", "|">>, <<"/", "#">>, <<" ", "c">>, <<>>)
    /\ call.verifyCommandNames
    /\ parser.err = ParserError("UnclosedComment", 9)
    /\ Cardinality(CommentEntries) = 1

\* `/# a\|b|/e z` parsed without verification: the comment ends at offset 7
C24_WitnessPipe ==
    /\ C24Case(<<>>, <<"/", "#">>, <<" ", "a", "\\", "|", "b">>, C24_COMMAND)
    /\ ~call.verifyCommandNames /\ ~Failed(parser)
    /\ parser.executors[parser.commandIndex[1]].end = 7


----------------------------------------------------------------------------
(* C25: nested block comments                                              *)

\* C25: a block comment that holds a nested block comment ends at its own
\* end marker, also when that marker follows the nested comment's marker at
\* once: the outer comment's entry ends with its marker, the nested one's
\* with its own, and a command after the outer marker is the next statement.
C25_BlockCommentsNest ==
    \A gap \in C25Gaps, tail \in C25Tails :
        (Done /\ call.text = C25Text(gap, tail)) =>
            /\ ~Failed(parser)
            /\ Len(parser.commandIndex) = (IF tail = <<>> THEN 2 ELSE 3)
            /\ LET outer == parser.executors[parser.commandIndex[1]]
                   inner == parser.executors[parser.commandIndex[2]]
               IN  /\ outer.name = <<"*">> /\ outer.start = 1
                   /\ outer.end = Len(C25Comment(gap)) - 1
                   /\ inner.name = <<"*">> /\ inner.start = Len(C25_OUTER) + 1
                   /\ inner.end = Len(C25_OUTER \o C25_INNER) - 1
            /\ tail # <<>> =>
                  /\ Len(RootExecutors) = 1
                  /\ UnnamedTexts(parser.executors[RootExecutors[1]]) = << <<"z">> >>


----------------------------------------------------------------------------
(* C26: /breakpoint                                                        *)

\* the executors named breakpoint in the executor list of a closure
Breakpoints(closure) ==
    IF closure > Len(parser.closures) THEN {}
    ELSE LET list == parser.closures[closure].executorList
         IN  { i \in 1..Len(list) : parser.executors[list[i]].name = NAME_BREAKPOINT }

\* C26: a /breakpoint statement (before a pipe, before the end of its closure
\* or at the end of the input) puts an executor into the executor list of
\* the closure it stands in when a debug controller is attached to the
\* parse, and none when there is no debug controller.
C26_BreakpointRecorded ==
    \A f \in C26Frames :
        (Done /\ call.text = C26Text(f)) =>
            /\ ~Failed(parser)
            /\ Cardinality(Breakpoints(f.closure)) = (IF call.debugController THEN 1 ELSE 0)


----------------------------------------------------------------------------
(* C27: run-shorthand                                                      *)

C27Case(target, named, further, place) ==
    Done /\ call.text = C27Text(target, named, further, place)
\* the executor of the run-shorthand statement
C27Executor(place) == parser.executors[parser.closures[place.closure].executorList[1]]

\* C27: a run-shorthand statement takes only named arguments after its
\* target. Further unnamed text before the end of the statement makes parse
\* throw `Unexpected end of command` at that text; without such text the
\* statement's executor has exactly one unnamed argument, the target (bare
\* or quoted), and the named arguments given.
C27_RunShorthand ==
    \A target \in C27Targets, named \in C27Named, further \in C27Further, place \in C27Places :
        C27Case(target, named, further, place) =>
            IF further # <<>>
            THEN parser.err = ParserError("UnexpectedEndOfCommand",
                                  Len(place.pre \o C27Statement(target, named)) + 1)
            ELSE /\ ~Failed(parser)
                 /\ Len(parser.closures) >= place.closure
                 /\ Len(parser.closures[place.closure].executorList) >= 1
                 /\ C27Executor(place).name = <<":">>
                 /\ UnnamedTexts(C27Executor(place)) = <<target.value>>
                 /\ Len(C27Executor(place).namedArgumentList) = (IF named = <<>> THEN 0 ELSE 1)

\* `/:"a b" k=v "b"|/e z` throws, `/e {:/:"a b" k=v  :}` gives the one target
C27_Witness ==
    \/ /\ C27Case(C27Target(<<"\"", "a", " ", "b", "\"">>, <<"a", " ", "b">>), <<" ", "k", "=", "v">>, <<" ", "\"", "b", "\"">>, C27Place(<<>>, <<"|", "/", "e", " ", "z">>, 1))
       /\ parser.err = ParserError("UnexpectedEndOfCommand", 12)
    \/ /\ C27Case(C27Target(<<"\"", "a", " ", "b", "\"">>, <<"a", " ", "b">>), <<" ", "k", "=", "v", " ", " ">>, <<>>, C27Place(<<"/", "e", " ", "{", ":">>, <<":", "}">>, 2))
       /\ ~Failed(parser)
       /\ UnnamedTexts(C27Executor(C27Place(<<"/", "e", " ", "{", ":">>, <<":", "}">>, 2))) = << <<"a", " ", "b">> >>


----------------------------------------------------------------------------
(* C28: the legacy rewrite in every kind of value                          *)

\* the executors the rewrite put into the executor list of a closure
C28Synthetic(closure) ==
    LET list == parser.closures[closure].executorList
    IN  SelectSeq([i \in 1..Len(list) |-> parser.executors[list[i]]], IsSynthetic)
\* the texts of the named and unnamed values of the statement of a closure
C28Values(closure) ==
    LET list == parser.closures[closure].executorList
        e == parser.executors[list[Len(list)]]
    IN  { ValueText(e.namedArgumentList[i].value) : i \in 1..Len(e.namedArgumentList) }
            \cup { ValueText(e.unnamedArgumentList[i]) : i \in 1..Len(e.unnamedArgumentList) }
Holds(text, part) == \E k \in 0..Len(text) : StartsWithAt(text, k, part)
\* the first argument of the n-th synthetic executor
C28Name(closure, n) == ValueText(C28Synthetic(closure)[n].unnamedArgumentList[1])

\* C28: with the legacy rewrite on and the new macro engine off, every
\* {{getvar::name}} or {{getglobalvar::name}} in a parsed value (bare, quoted,
\* list value, scalar unnamed argument, plain-text element of a list) adds
\* four executors to the executor list of the current closure: /let of a
\* pipe variable, /getvar or /getglobalvar of the name, /let of a value
\* variable, /return of the pipe variable, with variable names that differ
\* between occurrences; the occurrence in the value is replaced by a
\* reference to the value variable.
C28_RewriteEveryValue ==
    \A c \in C28Cases :
        (/\ Done /\ call.text = c.text
         /\ call.REPLACE_GETVAR /\ ~call.experimental_macro_engine) =>
            /\ ~Failed(parser)
            /\ Len(parser.closures) >= c.closure
            /\ Len(C28Synthetic(c.closure)) = 4 * Len(c.macros)
            /\ \A k \in 1..Len(c.macros) :
                  LET s == C28Synthetic(c.closure)
                      n == 4 * (k - 1)
                  IN  /\ s[n + 1].name = NAME_LET
                      /\ StartsWithAt(C28Name(c.closure, n + 1), 0, PARSER_PIPE)
                      /\ UnnamedTexts(s[n + 1])[2] = PIPE_MACRO
                      /\ s[n + 2].name = c.macros[k].cmd
                      /\ UnnamedTexts(s[n + 2]) = <<c.macros[k].name>>
                      /\ s[n + 3].name = NAME_LET
                      /\ StartsWithAt(C28Name(c.closure, n + 3), 0, PARSER_VAR)
                      /\ UnnamedTexts(s[n + 3])[2] = PIPE_MACRO
                      /\ s[n + 4].name = NAME_RETURN
                      /\ UnnamedTexts(s[n + 4]) = <<VarMacro(C28Name(c.closure, n + 1))>>
                      /\ \E v \in C28Values(c.closure) :
                            Holds(v, VarMacro(C28Name(c.closure, n + 3)))
            /\ Cardinality({ C28Name(c.closure, 4 * (k - 1) + n) :
                                 k \in 1..Len(c.macros), n \in {1, 3} }) = 2 * Len(c.macros)
            /\ \A v \in C28Values(c.closure) : \A k \in 0..Len(v) : ~GetvarMatch(v, k).found


----------------------------------------------------------------------------
(* C30: the order of the command index                                     *)

\* the start offsets of the executors of the command index, in its order
IndexedCommandStarts ==
    [i \in 1..Len(parser.commandIndex) |-> parser.executors[parser.commandIndex[i]].start]

\* C30: after a successful parse the command index is in document order: the
\* start offsets of its executors strictly increase, also when a statement
\* (/break or a generic command) has a closure with statements as argument.
C30_DocumentOrder ==
    Succeeded =>
        \A i, j \in 1..Len(parser.commandIndex) :
            i < j => IndexedCommandStarts[i] < IndexedCommandStarts[j]


----------------------------------------------------------------------------
(* C29: the names of the macro index                                       *)

\* C29: the name of a macro index entry is the macro's leading identifier:
\* the text after `{{`, flags and whitespace, up to the first `::`, whitespace
\* or the closing braces, wherever the macro ends in the indexed value, also
\* when its `}}` are the last characters of the value.
C29_MacroName ==
    \A f \in C29Frames : \A m \in C29Macros(f) :
        (Done /\ call.text = C29Text(f, m[1], m[2])) =>
            /\ ~Failed(parser)
            /\ Len(parser.macroIndex) = 1
            /\ parser.macroIndex[1].name = C29_IDENTIFIER


----------------------------------------------------------------------------
(* C31: scope snapshots                                                    *)

\* C31: a scope snapshot stored in the scope index is immutable: the names
\* visible through it (its own and all its ancestors') are, at the end of
\* the parse, the names that were visible through it when it was stored,
\* whatever was parsed after it, e.g. a /let in an enclosing closure after
\* the nested closure has ended.
C31_SnapshotsImmutable ==
    Done =>
        \A i \in 1..Len(parser.scopeIndex) :
            EffectiveNames(parser, parser.scopeIndex[i]) = parser.visibleWhenStored[i]


----------------------------------------------------------------------------
(* C32: /let registers its variable                                        *)

\* C32: parsing a /let statement registers its variable in the current
\* scope: the value of key= when there is one, otherwise the first unnamed
\* string value; also for a /let with key= and no unnamed argument.
C32_LetRegisters ==
    \A form \in C32Forms, place \in C32Places :
        (Done /\ call.text = C32Text(form, place)) =>
            /\ ~Failed(parser)
            /\ Len(parser.closures) >= place.closure
            /\ parser.scopes[parser.closures[place.closure].scope].variableNames = << <<"x">> >>


----------------------------------------------------------------------------
(* C33: the joined overflow of capped splitting                            *)

C33Case(head, rest) == Done /\ call.text = C33Text(head, rest)

\* C33: when capped splitting yields more than cap+1 elements, the elements
\* from position cap on are joined into one element, with quote characters
\* re-added around the joined elements that were quoted in the source and
\* around no others, also when closures are among the elements: a quoted
\* string at the cap followed by text becomes the element `"b"` and the text.
C33_JoinedQuotes ==
    \A head \in C33Heads, rest \in C33Rests :
        C33Case(head, rest) =>
            /\ ~Failed(parser)
            /\ Len(RootExecutors) = 1
            /\ LET list == UnnamedTexts(parser.executors[RootExecutors[1]])
               IN  /\ Len(list) = head.cap + 1
                   /\ list[head.cap + 1] = C33_QUOTED \o rest


----------------------------------------------------------------------------
(* C34: the end of the text                                                *)

\* nothing but whitespace, possibly nothing at all, from the cursor on
OnlyWhitespaceLeft(p) == \A i \in (p.index + 1)..Len(p.text) : IsSpace(p.text[i])

\* C34: endOfText is true exactly when the cursor is at or past the end of
\* the input, or the current character is whitespace and nothing but
\* whitespace (possibly nothing at all) follows it; in particular it is true
\* on a single final whitespace character.
C34_EndOfText ==
    EndOfText(parser) <=> (parser.index >= Len(parser.text) \/ OnlyWhitespaceLeft(parser))

----------------------------------------------------------------------------
(* C35: parse() terminates. A call of parse() is one step; the step is     *)
(* computed by the loops of the code, each iteration from the state the     *)
(* iteration before left.                                                   *)

\* parse() returned the root closure, with the whole input behind the cursor
ReturnedRoot ==
    /\ ~Failed(parser)
    /\ parser.ret = 1
    /\ parser.closureIndex[1].ended
    /\ parser.index >= Len(call.text)

\* C35: for every input text, every parser-flag setting and both
\* verification settings, the call of parse ends: no iteration of the
\* statement loop or of the value loop leaves the cursor where it was, and
\* the call has thrown or has returned the root closure with the whole input
\* consumed.
C35_Terminates ==
    phase # "ready" =>
        /\ parser.err.kind # "Stalled"
        /\ Failed(parser) \/ ReturnedRoot

\* a parse that returned although the text stops in the middle of a closure
C35_Witness ==
    /\ Done
    /\ call.text = <<"/", "e", " ", "{", ":", "/", "e", " ", "a">>
    /\ call.STRICT_ESCAPING /\ call.REPLACE_GETVAR /\ ~call.verifyCommandNames
    /\ ReturnedRoot


----------------------------------------------------------------------------
(* C36: the cursor and the recorded end offsets                            *)

\* the end offsets a parse recorded: closure spans and executors
EndOffsets(p) ==
    { p.closureIndex[i].end : i \in 1..Len(p.closureIndex) }
        \cup { p.executors[i].end : i \in 1..Len(p.executors) }

\* C36: after a parse, with verification enabled or disabled, the cursor
\* index is at most the input length, and every closure-span end offset and
\* every executor end offset that a successful parse recorded is at most the
\* input length.
C36_CursorBounded ==
    phase # "ready" =>
        /\ parser.index <= Len(parser.text)
        /\ ~Failed(parser) => \A end \in EndOffsets(parser) : end <= Len(parser.text)


----------------------------------------------------------------------------
(* C37: parser flags are not scoped to closures                            *)

\* the executors parseCommand made: they carry a copy of the flags
\* in force; comments, /parser-flag, /breakpoint, /break and the run
\* shorthand have parsers of their own
MadeByParseCommand(e) ==
    /\ e.name \notin {NAME_PARSER_FLAG, NAME_BREAKPOINT, NAME_BREAK, <<":">>}
    /\ e.command \notin {LookupCommand(<<"/">>), LookupCommand(<<"*">>)}

\* C37: a flag changed by /parser-flag inside a nested closure stays in
\* force after the closure's end: every command is parsed under the flags of
\* the call updated by all the /parser-flag statements before it, those in
\* closures that have ended included, and so the parse ends with the flags
\* updated by all of them; a /parser-flag naming an unknown flag changes none.
C37_FlagsNotScoped ==
    (phase # "ready" /\ ~Failed(parser)) =>
        /\ parser.flags = FlagsBefore(parser, Len(parser.commandIndex) + 1)
        /\ \A j \in 1..Len(parser.commandIndex) :
              LET e == parser.executors[parser.commandIndex[j]]
              IN  MadeByParseCommand(e) => e.parserFlags = FlagsBefore(parser, j)

\* strict escaping switched on in a closure lets the statement after the
\* closure keep a pipe in its quoted value
C37_Witness ==
    /\ Succeeded /\ call.text = C37_STRICT_ON
    /\ ~call.STRICT_ESCAPING /\ call.verifyCommandNames
    /\ parser.flags.STRICT_ESCAPING
    /\ Len(RootExecutors) = 2
    /\ LET e == parser.executors[RootExecutors[2]]
       IN  /\ e.parserFlags.STRICT_ESCAPING
           /\ UnnamedTexts(e) = << <<"a", "|", "b">> >>


----------------------------------------------------------------------------
(* EventSourceStream of src/public/scripts/sse-stream.js. The stream       *)
(* object is the record held in `stream`: the closure variables            *)
(* streamBuffer and lastEventId, and `readable`, the events enqueued so     *)
(* far. Two fields belong to the writer: `pending`, the decoded text not    *)
(* yet written, and `received`, the text written so far; `writes` counts    *)
(* the chunks. The TextDecoderStream in front is not modelled: chunks are   *)
(* text.                                                                    *)

CR == "\r"
LF == "\n"
\* stands for the character U+0000
NUL == "\\0"

\* the chunks written are of 1 to MaxChunk characters
MaxChunk == 3

FIELD_EVENT == <<"e", "v", "e", "n", "t">>
FIELD_DATA == <<"d", "a", "t", "a">>
FIELD_ID == <<"i", "d">>
MESSAGE == <<"m", "e", "s", "s", "a", "g", "e">>

NewEventSourceStream ==
    [streamBuffer |-> <<>>, lastEventId |-> <<>>, readable |-> <<>>,
     pending |-> <<>>, received |-> <<>>, writes |-> 0]

\* new MessageEvent(type, { data, lastEventId })
MessageEvent(type, data, lastEventId) ==
    [type |-> type, data |-> data, lastEventId |-> lastEventId]

\* the length of a match of /\r\n\r\n|\r\r|\n\n/ at offset k of t, 0 if none
SeparatorAt(t, k) ==
    IF StartsWithAt(t, k, <<CR, LF, CR, LF>>) THEN 4
    ELSE IF StartsWithAt(t, k, <<CR, CR>>) \/ StartsWithAt(t, k, <<LF, LF>>) THEN 2
    ELSE 0

\* t.split(/\r\n\r\n|\r\r|\n\n/g)
RECURSIVE SplitEvents(_)
SplitEvents(t) ==
    LET k == First({ i \in 0..(Len(t) - 1) : SeparatorAt(t, i) > 0 }, Len(t))
    IN  IF k = Len(t) THEN <<t>>
        ELSE <<Slice(t, 0, k)>> \o SplitEvents(Slice(t, k + SeparatorAt(t, k), Len(t)))

\* eventChunk.split(/\n|\r|\r\n/g): the alternatives are tried in this order,
\* so a \r\n is split twice, with an empty line in between
RECURSIVE SplitLines(_)
SplitLines(t) ==
    LET k == First({ i \in 0..(Len(t) - 1) : t[i + 1] \in {CR, LF} }, Len(t))
    IN  IF k = Len(t) THEN <<t>>
        ELSE <<Slice(t, 0, k)>> \o SplitLines(Slice(t, k + 1, Len(t)))

\* /([^:]+)(?:: ?(.*))?/.exec(line): the expression is not anchored, so the
\* field starts at the first character that is not a colon
LineMatch(line) ==
    LET start == First({ i \in 0..(Len(line) - 1) : line[i + 1] # ":" }, Len(line))
        stop == First({ i \in start..(Len(line) - 1) : line[i + 1] = ":" }, Len(line))
        rest == IF StartsWithAt(line, stop, <<":", " ">>) THEN stop + 2 ELSE stop + 1
    IN  [matched |-> start < Len(line),
         field |-> Slice(line, start, stop),
         value |-> IF rest >= Len(line) THEN <<>> ELSE Slice(line, rest, Len(line))]

\* the body of `for (const line of lines)`: acc is eventType, eventData, lastEventId
ProcessLine(acc, line) ==
    LET lineMatch == LineMatch(line)
    IN  IF ~lineMatch.matched THEN acc
        ELSE IF lineMatch.field = FIELD_EVENT THEN [acc EXCEPT !.eventType = lineMatch.value]
        ELSE IF lineMatch.field = FIELD_DATA
        THEN [acc EXCEPT !.eventData = @ \o lineMatch.value \o <<LF>>]
        ELSE IF lineMatch.field = FIELD_ID
        THEN IF \E i \in 1..Len(lineMatch.value) : lineMatch.value[i] = NUL THEN acc
             ELSE [acc EXCEPT !.lastEventId = lineMatch.value]
        ELSE acc

RECURSIVE ProcessLines(_, _)
ProcessLines(acc, lines) ==
    IF lines = <<>> THEN acc ELSE ProcessLines(ProcessLine(acc, Head(lines)), Tail(lines))

\* the body of `for (const eventChunk of events)`
ProcessEvent(s, eventChunk) ==
    LET acc == ProcessLines([eventType |-> <<>>, eventData |-> <<>>,
                             lastEventId |-> s.lastEventId], SplitLines(eventChunk))
        t == [s EXCEPT !.lastEventId = acc.lastEventId]
        eventData == IF acc.eventData # <<>> /\ acc.eventData[Len(acc.eventData)] = LF
                     THEN Slice(acc.eventData, 0, -1) ELSE acc.eventData
    IN  IF acc.eventData = <<>> THEN t
        ELSE [t EXCEPT !.readable =
                 Append(@, MessageEvent(IF acc.eventType = <<>> THEN MESSAGE ELSE acc.eventType,
                                        eventData, acc.lastEventId))]

RECURSIVE ProcessEvents(_, _)
ProcessEvents(s, events) ==
    IF events = <<>> THEN s ELSE ProcessEvents(ProcessEvent(s, Head(events)), Tail(events))

\* processChunk(controller)
processChunk(s) ==
    LET events == SplitEvents(s.streamBuffer)
    IN  ProcessEvents([s EXCEPT !.streamBuffer = events[Len(events)]],
                      SubSeq(events, 1, Len(events) - 1))

transformUnbuffered(s, chunk) == processChunk([s EXCEPT !.streamBuffer = chunk])

\* transform(chunk, controller) of the TransformStream
transform(s, chunk) == processChunk([s EXCEPT !.streamBuffer = @ \o chunk])

\* The texts written: they hold the three separators, a separator of one
\* kind inside one of another, fields with and without a colon and a blank,
\* blocks without data, a comment, an id with and without U+0000
SseTexts ==
    { <<"d", "a", "t", "a", ":", " ", "a", LF, LF, "d", "a", "t", "a", ":", " ", "b", LF, LF, "d", "a">>,
      <<"d", "a", "t", "a", ":", " ", "a", CR, LF, CR, LF, "d", "a", "t", "a", ":", " ", "b", CR, CR, "x">>,
      <<"e", "v", "e", "n", "t", ":", " ", "e", LF, "d", "a", "t", "a", ":", " ", "a", LF, "i", "d", ":", " ", "1", LF, LF, ":", " ", "c", LF, LF, "d", "a", "t", "a", LF, LF>>,
      <<":", "d", "a", "t", "a", ":", " ", "a", LF, LF, "i", "d", ":", " ", "2", LF, LF, "d", "a", "t", "a", ":", "a", LF, "d", "a", "t", "a", ":", " ", " ", "b", LF, LF>>,
      <<"a", CR, CR, LF, CR, LF, "d", "a", "t", "a", ":", " ", "x", LF, LF, LF>>,
      <<"i", "d", ":", " ", "1", NUL, LF, "d", "a", "t", "a", ":", " ", "a", LF, LF, "i", "d", ":", " ", "3", CR, LF, "d", "a", "t", "a", ":", " ", "b", LF, LF>> }

\* A stream is constructed and a text is about to be written to it.
SseInit ==
    /\ parser = NewParser
    /\ call = <<>>
    /\ phase = "streaming"
    /\ previous = <<>>
    /\ walker = NoWalker
    /\ \E text \in SseTexts : stream = [NewEventSourceStream EXCEPT !.pending = text]

\* the writer writes the next chunk, of any length up to MaxChunk
Transform ==
    /\ phase = "streaming"
    /\ \E n \in 1..Min(MaxChunk, Len(stream.pending)) :
          LET chunk == SubSeq(stream.pending, 1, n)
          IN  stream' = [transform(stream, chunk) EXCEPT
                            !.pending = SubSeq(@, n + 1, Len(@)),
                            !.received = @ \o chunk,
                            !.writes = @ + 1]
    /\ UNCHANGED <<parser, call, phase, previous, walker>>

SseNext == Transform

SseSpec == SseInit /\ [][SseNext]_vars

----------------------------------------------------------------------------
(* C38: the events do not depend on the chunks                             *)

\* the stream after the whole text has been written as one chunk
Whole(text) == transform(NewEventSourceStream, text)

\* a line that the stream reads as a data field
IsDataLine(line) == LineMatch(line).matched /\ LineMatch(line).field = FIELD_DATA
HasData(block) == \E i \in 1..Len(SplitLines(block)) : IsDataLine(SplitLines(block)[i])
\* the blocks of a text that are followed by a separator
CompleteBlocks(text) == SubSeq(SplitEvents(text), 1, Len(SplitEvents(text)) - 1)

\* C38: the events emitted depend only on the concatenation of the text
\* received, not on its division into chunks: after every chunk the events,
\* the buffer and the last event id are those of the whole text written at
\* once; the buffer is the text after the last separator; there is one event
\* for every complete block with data and none for a block without.
C38_ChunkIndependent ==
    phase = "streaming" =>
        LET whole == Whole(stream.received)
            blocks == CompleteBlocks(stream.received)
        IN  /\ stream.readable = whole.readable
            /\ stream.streamBuffer = whole.streamBuffer
            /\ stream.lastEventId = whole.lastEventId
            /\ \A k \in 0..Len(stream.streamBuffer) : SeparatorAt(stream.streamBuffer, k) = 0
            /\ stream.streamBuffer =
                  Slice(stream.received, Len(stream.received) - Len(stream.streamBuffer),
                        Len(stream.received))
            /\ Len(stream.readable) =
                  Cardinality({ i \in 1..Len(blocks) : HasData(blocks[i]) })

\* a text written in four chunks or more, two events out and text held back
C38_Witness ==
    /\ phase = "streaming"
    /\ stream.pending = <<>> /\ stream.writes >= 4
    /\ Len(stream.readable) = 2
    /\ stream.streamBuffer = <<"d", "a">>


----------------------------------------------------------------------------
(* SmoothEventSourceStream of sse-stream.js with                           *)
(* power_user.smooth_streaming_wordFade on: the transform that turns the    *)
(* events of the stream into word events. The record in `stream` holds the  *)
(* closure variables of the constructor and `readable`, the events          *)
(* enqueued; `pending` is the text the writer has still to send, `received` *)
(* the concatenation of the chunks parseStreamData has yielded, `done`      *)
(* whether [DONE] has been sent, `others` the number of events without text *)
(* sent. The data of an event is the record [json, text]: json is "text"    *)
(* for {"choices":[{"text":...}]}, and "[DONE]", "null" or "{}" for these   *)
(* three strings. The waiting (delay) is not modelled; the time to wait is. *)

\* stands for the character U+0060, the grave accent
GRAVE == "grave"

\* power_user.smooth_streaming_speed
SmoothStreamingSpeed == 50
speedFactor == Max(100 - SmoothStreamingSpeed, 1)
\* at most this many events without text are sent
MaxOthers == 1

Data(json, text) == [json |-> json, text |-> text]
DONE == Data("[DONE]", <<>>)

NewSmoothEventSourceStream ==
    [bufferForWords |-> <<>>, lastWord |-> <<>>, previousParsed |-> <<>>,
     delayForNextRound |-> 0, weAreInACodeBlock |-> FALSE, readable |-> <<>>,
     pending |-> <<>>, received |-> <<>>, done |-> FALSE, others |-> 0]

\* parseStreamData(json) for the completion format (215-228): one item for
\* every character; throws `Unknown event data format` for {} and for an
\* empty text
parseStreamData(json) ==
    [threw |-> json.json # "text" \/ json.text = <<>>,
     items |-> IF json.json = "text"
               THEN [i \in 1..Len(json.text) |->
                        [data |-> Data("text", <<json.text[i]>>), chunk |-> <<json.text[i]>>]]
               ELSE <<>>]

\* s.includes(c)
Includes(s, c) == \E i \in 1..Len(s) : s[i] = c
\* /`[^`]+`/.test(s)
HasFullCode(s) ==
    \E i \in 1..Len(s) : \E j \in (i + 2)..Len(s) :
        /\ s[i] = GRAVE /\ s[j] = GRAVE
        /\ \A k \in (i + 1)..(j - 1) : s[k] # GRAVE
\* /```(.*)\n/.test(s)
SawCodeFence(s) ==
    \E i \in 0..(Len(s) - 4) : \E j \in (i + 4)..Len(s) :
        /\ StartsWithAt(s, i, <<GRAVE, GRAVE, GRAVE>>)
        /\ s[j] = LF
        /\ \A k \in (i + 4)..(j - 1) : s[k] \notin {LF, CR}
\* s.split(c)[0]
FirstPiece(s, c) == Slice(s, 0, First({ i \in 0..(Len(s) - 1) : s[i + 1] = c }, Len(s)))
\* s.substring(a, b): the offsets are clamped, and swapped when a > b
Substring(s, a, b) ==
    LET x == Max(0, Min(a, Len(s)))
        y == Max(0, Min(b, Len(s)))
    IN  Slice(s, Min(x, y), Max(x, y))

\* determineDelay()
determineDelay(lastWord) ==
    IF Includes(lastWord, ".") \/ Includes(lastWord, "?") \/ Includes(lastWord, "!") THEN 10
    ELSE IF Includes(lastWord, ",") THEN 8
    ELSE IF Len(Trim(lastWord)) <= 3 THEN 1
    ELSE IF Len(Trim(lastWord)) <= 6 THEN 4
    ELSE IF Len(Trim(lastWord)) <= 9 THEN 6
    ELSE 8

\* new MessageEvent(event.type, { data: JSON.stringify({ ...data, choices: [{ text }] }) })
WordEvent(type, text) == [type |-> type, data |-> Data("text", text)]

\* the body of `for await (const parsed of parseStreamData(json))`
WordStep(s, parsed, type) ==
    LET buffer == s.bufferForWords \o parsed.chunk
        bufferHasFullWord == Includes(buffer, " ")
        bufferHasFullCode == HasFullCode(buffer)
        bufferSawCodeFence == SawCodeFence(buffer)
        inCode == IF bufferSawCodeFence THEN ~s.weAreInACodeBlock ELSE s.weAreInACodeBlock
        t == [s EXCEPT !.previousParsed = <<parsed>>, !.bufferForWords = buffer,
                       !.weAreInACodeBlock = inCode, !.received = @ \o parsed.chunk]
        lastWord == IF Includes(buffer, LF) THEN FirstPiece(buffer, LF) \o <<LF>>
                    ELSE FirstPiece(buffer, " ") \o <<" ">>
    IN  IF ~bufferHasFullWord /\ ~bufferHasFullCode /\ ~bufferSawCodeFence THEN t
        ELSE [t EXCEPT !.lastWord = lastWord,
                       !.bufferForWords = Substring(buffer, Len(lastWord), Len(buffer)),
                       !.readable = Append(@, WordEvent(type, lastWord)),
                       !.delayForNextRound =
                           IF inCode THEN 0 ELSE determineDelay(lastWord) * speedFactor + 50]

RECURSIVE WordSteps(_, _, _)
WordSteps(s, items, type) ==
    IF items = <<>> THEN s ELSE WordSteps(WordStep(s, Head(items), type), Tail(items), type)

\* transform(chunk, controller) of transformWordStream
transformWordStream(s, event) ==
    IF event.data = DONE
    THEN LET flushed ==
                 IF Len(s.bufferForWords) > 0
                 THEN [s EXCEPT !.lastWord = s.bufferForWords,
                                !.readable = Append(@, WordEvent(event.type, s.bufferForWords)),
                                !.bufferForWords = <<>>]
                 ELSE s
         IN  [flushed EXCEPT !.readable = Append(@, event)]
    ELSE IF event.data.json = "null" THEN [s EXCEPT !.readable = Append(@, event)]
    ELSE LET parsed == parseStreamData(event.data)
             t == WordSteps(s, parsed.items, event.type)
         IN  IF parsed.threw THEN [t EXCEPT !.readable = Append(@, event)] ELSE t

\* The texts streamed: words, lines, punctuation, inline code with and
\* without a blank after it, a fenced block
SmoothTexts ==
    { <<"a", " ", "b">>,
      <<"a", "b", " ", "c", LF, "d", " ", "e">>,
      <<GRAVE, "a", GRAVE>>,
      <<GRAVE, "a", GRAVE, " ", "b">>,
      <<GRAVE, GRAVE, GRAVE, LF, "x", " ", "y", LF, GRAVE, GRAVE, GRAVE, LF>>,
      <<"a", ",", " ", "b", ".", " ", "c">>,
      <<"h", "e", "l", "l", "o", " ", "t", "h", "e", "r", "e", " ", "y", "o", "u">>,
      <<"a", LF, LF, "b">>,
      <<GRAVE, "a", " ", "b", GRAVE, "c">> }

SmoothInit ==
    /\ parser = NewParser
    /\ call = <<>>
    /\ phase = "smooth"
    /\ previous = <<>>
    /\ walker = NoWalker
    /\ \E text \in SmoothTexts : stream = [NewSmoothEventSourceStream EXCEPT !.pending = text]

\* an event with the next 1 to MaxChunk characters of the text
TransformText ==
    /\ phase = "smooth" /\ ~stream.done
    /\ \E n \in 1..Min(MaxChunk, Len(stream.pending)) :
          stream' = [transformWordStream(stream, [type |-> MESSAGE,
                                                  data |-> Data("text", SubSeq(stream.pending, 1, n))])
                        EXCEPT !.pending = SubSeq(@, n + 1, Len(@))]
    /\ UNCHANGED <<parser, call, phase, previous, walker>>

\* an event without text: JSON null, or an object of no known format
TransformOther ==
    /\ phase = "smooth" /\ ~stream.done
    /\ stream.others < MaxOthers
    /\ \E json \in {"null", "{}"} :
          stream' = [transformWordStream(stream, [type |-> MESSAGE, data |-> Data(json, <<>>)])
                        EXCEPT !.others = @ + 1]
    /\ UNCHANGED <<parser, call, phase, previous, walker>>

\* the event [DONE], after the whole text
TransformDone ==
    /\ phase = "smooth" /\ ~stream.done
    /\ stream.pending = <<>>
    /\ stream' = [transformWordStream(stream, [type |-> MESSAGE, data |-> DONE])
                     EXCEPT !.done = TRUE]
    /\ UNCHANGED <<parser, call, phase, previous, walker>>

SmoothNext == TransformText \/ TransformOther \/ TransformDone

SmoothSpec == SmoothInit /\ [][SmoothNext]_vars

----------------------------------------------------------------------------
(* C39: the word events carry the text received                            *)

\* the concatenation of the texts of the word events among the first n events
RECURSIVE WordsText(_, _)
WordsText(readable, n) ==
    IF n = 0 THEN <<>>
    ELSE WordsText(readable, n - 1)
             \o (IF readable[n].data.json = "text" THEN readable[n].data.text ELSE <<>>)

\* C39: in word-fade smooth streaming the concatenation of the texts of the
\* word events emitted, followed by the text still buffered, is the
\* concatenation of the text chunks received, and when [DONE] has been
\* forwarded nothing is buffered: the words emitted up to [DONE] are the
\* text received, no character dropped, duplicated or added.
C39_WordsCarryText ==
    phase = "smooth" =>
        /\ WordsText(stream.readable, Len(stream.readable)) \o stream.bufferForWords
              = stream.received
        /\ stream.done =>
              /\ stream.bufferForWords = <<>>
              /\ stream.readable[Len(stream.readable)].data = DONE


----------------------------------------------------------------------------
(* MacroCstWalker of src/public/scripts/macros/engine/MacroCstWalker.js:   *)
(* the two ways it pairs opening and closing macros. A document is the      *)
(* sequence of its macro items (plain text between them plays no part);     *)
(* an item is the record of what #extractMacroInfo and                      *)
(* #canAcceptScopedContent read from its node: name, isClosing, the number  *)
(* of arguments written, and `def`, the definition the registry returns for *)
(* the name (NoDef for an unknown macro). Items are named by their position *)
(* in the document, which stands for startOffset. The record in `walker`    *)
(* holds the document and the two answers.                                  *)

\* a document has at most MaxMacros macros
MaxMacros == 4

NoDef == [known |-> FALSE, minArgs |-> 0, maxArgs |-> 0, list |-> FALSE]
\* a registered macro of at most one argument
OneArgument == [known |-> TRUE, minArgs |-> 0, maxArgs |-> 1, list |-> FALSE]

MacroItem(name, isClosing, argCount, def) ==
    [name |-> name, isClosing |-> isClosing, argCount |-> argCount, def |-> def]

\* name.toLowerCase()
LowerName(name) == [i \in 1..Len(name) |-> IF name[i] = "A" THEN "a" ELSE name[i]]

\* #canAcceptScopedContent(macroNode, macroName)
canAcceptScopedContent(item) ==
    LET newArgCount == item.argCount + 1
    IN  IF ~item.def.known THEN TRUE
        ELSE IF item.def.list THEN newArgCount >= item.def.minArgs
        ELSE newArgCount >= item.def.minArgs /\ newArgCount <= item.def.maxArgs

\* the loop of findUnclosedScopes: the stack after the items from i on
RECURSIVE UnclosedStack(_, _, _)
UnclosedStack(items, i, unclosedStack) ==
    IF i > Len(items) THEN unclosedStack
    ELSE LET info == items[i]
             top == unclosedStack[Len(unclosedStack)]
         IN  IF info.isClosing
             THEN IF Len(unclosedStack) > 0
                     /\ LowerName(items[top].name) = LowerName(info.name)
                  THEN UnclosedStack(items, i + 1, SubSeq(unclosedStack, 1, Len(unclosedStack) - 1))
                  ELSE UnclosedStack(items, i + 1, unclosedStack)
             ELSE IF canAcceptScopedContent(info)
             THEN UnclosedStack(items, i + 1, Append(unclosedStack, i))
             ELSE UnclosedStack(items, i + 1, unclosedStack)

\* findUnclosedScopes({ text, cst }): the positions of the macros reported
findUnclosedScopes(items) == UnclosedStack(items, 1, <<>>)

\* the loop of #findMatchingClosingMacro; 0 stands for -1
RECURSIVE MatchingFrom(_, _, _, _, _)
MatchingFrom(macroInfos, matched, targetName, i, depth) ==
    IF i > Len(macroInfos) THEN 0
    ELSE LET info == macroInfos[i]
         IN  IF LowerName(info.name) # LowerName(targetName)
             THEN MatchingFrom(macroInfos, matched, targetName, i + 1, depth)
             ELSE IF i \in matched
             THEN MatchingFrom(macroInfos, matched, targetName, i + 1, depth)
             ELSE IF info.isClosing
             THEN IF depth - 1 = 0 THEN i
                  ELSE MatchingFrom(macroInfos, matched, targetName, i + 1, depth - 1)
             ELSE IF canAcceptScopedContent(info)
             THEN MatchingFrom(macroInfos, matched, targetName, i + 1, depth + 1)
             ELSE MatchingFrom(macroInfos, matched, targetName, i + 1, depth)

\* #findMatchingClosingMacro(macroInfos, openingIdx)
findMatchingClosingMacro(macroInfos, matched, openingIdx) ==
    MatchingFrom(macroInfos, matched, macroInfos[openingIdx].name, openingIdx + 1, 1)

\* the loop of #processScopedMacros that finds the pairs of this level
RECURSIVE ScopePairs(_, _, _, _, _)
ScopePairs(macroInfos, i, matched, insideScope, pairs) ==
    IF i > Len(macroInfos) THEN pairs
    ELSE LET openInfo == macroInfos[i]
             closingIdx == findMatchingClosingMacro(macroInfos, matched, i)
         IN  IF openInfo.isClosing \/ i \in matched \/ i \in insideScope
             THEN ScopePairs(macroInfos, i + 1, matched, insideScope, pairs)
             ELSE IF closingIdx = 0
             THEN ScopePairs(macroInfos, i + 1, matched, insideScope, pairs)
             ELSE IF ~canAcceptScopedContent(openInfo)
             THEN ScopePairs(macroInfos, i + 1, matched \cup {i, closingIdx}, insideScope, pairs)
             ELSE ScopePairs(macroInfos, i + 1, matched \cup {i, closingIdx},
                             insideScope \cup ((i + 1)..(closingIdx - 1)),
                             Append(pairs, [openingIndex |-> i, closingIndex |-> closingIdx]))

\* #processScopedMacros(items, text): the pairs found
processScopedMacros(items) == ScopePairs(items, 1, {}, {}, <<>>)

\* evaluateDocument: the pairs of the document, and those found when the
\* content of a pair is parsed and evaluated as a document of its own
\* (#evaluateScopedContent, #evaluateRawContent); the positions are those of
\* the whole document
RECURSIVE DocumentPairs(_, _)
DocumentPairs(items, offset) ==
    LET pairs == processScopedMacros(items)
    IN  UNION { { [openingIndex |-> offset + pairs[k].openingIndex,
                   closingIndex |-> offset + pairs[k].closingIndex] }
                  \cup DocumentPairs(SubSeq(items, pairs[k].openingIndex + 1,
                                            pairs[k].closingIndex - 1),
                                     offset + pairs[k].openingIndex)
                : k \in 1..Len(pairs) }

evaluateDocument(items) == DocumentPairs(items, 0)

\* The macros a document is made of: closing and opening macros of the
\* unknown names a and A, a closing macro b, and the registered macro b
\* written without and with its one argument
MacroItems ==
    { MacroItem(<<"a">>, TRUE, 0, NoDef), MacroItem(<<"A">>, TRUE, 0, NoDef),
      MacroItem(<<"b">>, TRUE, 0, OneArgument),
      MacroItem(<<"a">>, FALSE, 0, NoDef), MacroItem(<<"A">>, FALSE, 0, NoDef),
      MacroItem(<<"b">>, FALSE, 0, OneArgument), MacroItem(<<"b">>, FALSE, 1, OneArgument) }
Documents == UNION { [1..n -> MacroItems] : n \in 0..MaxMacros }

NotAsked == "not asked"

WalkerInit ==
    /\ parser = NewParser
    /\ call = <<>>
    /\ phase = "walker"
    /\ previous = <<>>
    /\ stream = NoStream
    /\ \E items \in Documents :
          walker = [items |-> items, unclosed |-> NotAsked, pairs |-> NotAsked]

\* MacroCstWalker.findUnclosedScopes({ text, cst })
FindUnclosedScopes ==
    /\ phase = "walker"
    /\ walker.unclosed = NotAsked
    /\ walker' = [walker EXCEPT !.unclosed = <<findUnclosedScopes(walker.items)>>]
    /\ UNCHANGED <<parser, call, phase, previous, stream>>

\* MacroCstWalker.evaluateDocument(options)
EvaluateDocument ==
    /\ phase = "walker"
    /\ walker.pairs = NotAsked
    /\ walker' = [walker EXCEPT !.pairs = <<evaluateDocument(walker.items)>>]
    /\ UNCHANGED <<parser, call, phase, previous, stream>>

WalkerNext == FindUnclosedScopes \/ EvaluateDocument

WalkerSpec == WalkerInit /\ [][WalkerNext]_vars

----------------------------------------------------------------------------
(* C40: the unclosed scopes and the pairs of evaluation                    *)

\* the positions of a set, in ascending order
RECURSIVE Ascending(_)
Ascending(S) ==
    IF S = {} THEN <<>>
    ELSE LET least == CHOOSE i \in S : \A j \in S : i <= j
         IN  <<least>> \o Ascending(S \ {least})

\* every opening macro of the document can accept scoped content
AllAccept(items) ==
    \A i \in 1..Len(items) : ~items[i].isClosing => canAcceptScopedContent(items[i])
\* the opening macros that evaluation pairs with a closing macro
PairedOpenings(pairs) == { pair.openingIndex : pair \in pairs }

\* C40: for a document whose opening macros can all accept scoped content,
\* findUnclosedScopes reports an opening macro exactly when document
\* evaluation does not pair it with a closing macro, and it reports them in
\* document order, the innermost last.
C40_UnclosedIffUnpaired ==
    (/\ phase = "walker" /\ walker.unclosed # NotAsked /\ walker.pairs # NotAsked
     /\ AllAccept(walker.items)) =>
        walker.unclosed[1] =
            Ascending({ i \in 1..Len(walker.items) :
                          /\ ~walker.items[i].isClosing
                          /\ i \notin PairedOpenings(walker.pairs[1]) })

====
